---- MODULE Spec2Model ----
(***************************************************************************)
(* Real-time drive monitoring engine of src/src/realtime_monitor.c: the    *)
(* device registry, the alert log, the engine lifecycle and the poll loop  *)
(* (MonitorThreadProc), which runs concurrently with the public calls.     *)
(* The code takes no lock, so the poll loop is modelled statement by       *)
(* statement and every public call may fall between two of its statements. *)
(* Metric values are fixed-point numbers in tenths (540 is 54.0).          *)
(***************************************************************************)
EXTENDS Integers, Naturals, Sequences, FiniteSets, TLC

VARIABLES
    g_monitor_initialized,  \* static BOOL g_monitor_initialized
    g_monitor_config,       \* static monitor_config_t g_monitor_config
    drives,                 \* g_monitor_context.drives[]
    alerts,                 \* g_monitor_context.alerts[]
    drive_count,            \* g_monitor_context.drive_count
    alert_count,            \* g_monitor_context.alert_count
    is_monitoring,          \* g_monitor_context.is_monitoring
    monitor_thread,         \* g_monitor_context.monitor_thread (0 is NULL)
    stop_event,             \* g_monitor_context.stop_event: "null", "clear", "set"
    threads,                \* every MonitorThreadProc: its position and locals
    waiter,                 \* the public call that is part-way:
                            \* StopDriveMonitoring(NULL) in its 5 s wait, or
                            \* a StartDriveMonitoring past its checks
    collected,              \* history: for every registry slot, what lines
                            \* 305-337 left in new_metrics[] since the slot
                            \* was last initialised
    g_health_predictor_initialized,  \* usb_health_predictor.c: static BOOL
    g_health_network,       \* static neural_network_t g_health_network
    health_files,           \* the files rufus_health_<c>.dat in app_data_dir
    g_quantum_initialized,  \* quantum_encryption.c: static BOOL
    g_quantum_context,      \* static quantum_encryption_context_t
    plain,                  \* the caller's plaintext buffer
    sealed,                 \* what EncryptData left in the caller's
                            \* ciphertext buffer, and its return value
    opened                  \* what DecryptData left in the caller's
                            \* plaintext buffer, and its return value

\* The statics of usb_health_predictor.c and the files it keeps.
predictor == <<g_health_predictor_initialized, g_health_network, health_files>>

\* The statics of quantum_encryption.c and the buffers of its caller.
quantum == <<g_quantum_initialized, g_quantum_context, plain, sealed, opened>>

vars == <<g_monitor_initialized, g_monitor_config, drives, alerts, drive_count,
          alert_count, is_monitoring, monitor_thread, stop_event, threads, waiter,
          collected, predictor, quantum>>

context == <<drives, alerts, drive_count, alert_count, is_monitoring,
             monitor_thread, stop_event>>

\* The state of realtime_monitor.c, which usb_health_predictor.c does not
\* touch.
monitor == <<g_monitor_initialized, g_monitor_config, context, threads, waiter,
             collected>>

----------------------------------------------------------------------------
(* Bounds of the model.                                                    *)

\* Registry capacity; the source has 16 (usb_health_predictor.h:112).
MONITOR_MAX_DRIVES == 2
\* A tick is started only while every registered record has fewer samples.
MaxPoints == 1
\* MonitorThreadProc instances that can exist at once.
MaxThreads == 2
\* As MaxPoints, where one drive is followed over several ticks.
MaxTicks == 3
\* Capacity of a health history; the source has 1000
\* (usb_health_predictor.h:17).
HEALTH_DATA_POINTS_MAX == 2

MONITOR_METRIC_MAX == 9

NULL == "NULL"
Devices == {"E:", "F:"}

\* The metric kinds the model follows: MONITOR_METRIC_TEMPERATURE.  The
\* loops over the metrics run through the members of this set in index
\* order, as the code runs through all nine kinds.
Metrics == {0}

\* Sampled values, in tenths.  CollectTemperatureMetric returns
\* 35.0f + (rand() % 20), from 35.0 to 54.0; with the default multipliers
\* 35.0 raises nothing, 50.0 a warning (60 * 0.8 = 48) and 54.0 a critical
\* alert (60 * 0.9 = 54).
Samples == {350, 500, 540}
\* Samples that stay below every threshold.
QuietSamples == {350}
\* A sample at the critical threshold.
CriticalSamples == {540}
\* What a temperature sensor behind CollectTemperatureMetric(drive_path,
\* float*) can deliver, beyond the simulated 35.0 to 54.0: -5.0 (below the
\* 0.0f that max_metrics starts from), 47.9, 48.0 (60 * 0.8), 54.0
\* (60 * 0.9) and 1050.0 (above the 1000.0f that min_metrics starts from).
SensorValues == {-50, 479, 480, 540, 10500}

AlertCapacity == MONITOR_MAX_DRIVES * Cardinality(Metrics)
DriveSlots == 0..(MONITOR_MAX_DRIVES - 1)
AlertSlots == 0..(AlertCapacity - 1)
ThreadIds == 1..MaxThreads

Min(S) == CHOOSE x \in S : \A y \in S : x <= y

RECURSIVE Gcd(_, _)
Gcd(a, b) == IF b = 0 THEN a ELSE Gcd(b, a % b)

----------------------------------------------------------------------------
(* Configuration.                                                          *)

\* InitRealTimeMonitor(NULL): the defaults of lines 26-40.  Vibration (5)
\* and EM (6) are off; the multipliers 0.8f and 0.9f are 8 and 9 tenths.
DefaultConfig ==
    [enable |-> [m \in Metrics |-> m \notin {5, 6}],
     warning_threshold |-> 8,
     critical_threshold |-> 9,
     auto_alert |-> TRUE]

ZeroConfig ==
    [enable |-> [m \in Metrics |-> FALSE],
     warning_threshold |-> 0,
     critical_threshold |-> 0,
     auto_alert |-> FALSE]

\* The monitor_config_t of the documented usage (EXPERIMENTAL_FEATURES.md,
\* lines 134-141): config = {0}, then temperature and speed monitoring on.
\* The multipliers stay 0.0.
UsageConfig ==
    [enable |-> [m \in Metrics |-> m \in {0, 1, 2}],
     warning_threshold |-> 0,
     critical_threshold |-> 0,
     auto_alert |-> FALSE]

\* A caller's monitor_config_t with the default multipliers, speed
\* monitoring on and temperature monitoring off.
SpeedOnlyConfig ==
    [enable |-> [m \in Metrics |-> m \in {1, 2}],
     warning_threshold |-> 8,
     critical_threshold |-> 9,
     auto_alert |-> TRUE]

\* *config for a config argument that is not NULL.
ConfigAt(config) ==
    CASE config = "usage" -> UsageConfig
      [] config = "speed_only" -> SpeedOnlyConfig
      [] OTHER -> ZeroConfig

\* The config arguments the callers pass: NULL, for the defaults.
ConfigArgs == {NULL}

----------------------------------------------------------------------------
(* Records.                                                                *)

\* A running mean is kept exactly, as a fraction in lowest terms.
Frac(n, d) == LET g == Gcd(n, d) IN <<n \div g, d \div g>>
ZeroFrac == <<0, 1>>

\* memset(drive_data, 0, sizeof(drive_monitor_data_t))
ZeroDrive ==
    [drive_path |-> "",
     is_monitoring |-> FALSE,
     is_healthy |-> FALSE,
     current_metrics |-> [m \in Metrics |-> 0],
     average_metrics |-> [m \in Metrics |-> ZeroFrac],
     max_metrics |-> [m \in Metrics |-> 0],
     min_metrics |-> [m \in Metrics |-> 0],
     error_count |-> 0,
     warning_count |-> 0,
     data_points |-> 0]

\* The record StartDriveMonitoring writes into a new slot (lines 113-127):
\* min_metrics starts at 1000.0f, the other statistics at 0.
NewDrive(drive_path) ==
    [ZeroDrive EXCEPT !.drive_path = drive_path,
                      !.is_monitoring = TRUE,
                      !.is_healthy = TRUE,
                      !.min_metrics = [m \in Metrics |-> 10000]]

ZeroAlert ==
    [drive_path |-> "",
     metric |-> 0,
     current_value |-> 0,
     threshold_value |-> 0,
     is_critical |-> FALSE,
     is_acknowledged |-> FALSE,
     alert_message |-> ""]

\* A thread that does not exist (never created, or returned).
NoThread == [pc |-> "none", i |-> 0, m |-> 0, k |-> 0]
NoWaiter == [kind |-> "none", handle |-> 0]

\* No record has been updated.
NothingCollected == [i \in DriveSlots |-> <<>>]

\* g_health_network = { 0 }: every weight and bias is zero.
ZeroNetwork == 0

\* drive_path[0], the character that names the health file of a drive
\* (lines 305-306 and 328-329 of usb_health_predictor.c).
FirstChar(drive_path) ==
    CASE drive_path = "E:" -> "E"
      [] drive_path = "F:" -> "F"
      [] drive_path = "\\\\.\\PhysicalDrive1" -> "\\"
      [] drive_path = "\\\\.\\PhysicalDrive2" -> "\\"

\* Two drives named by their device paths, as CreateFile takes them.
PhysicalDrives == {"\\\\.\\PhysicalDrive1", "\\\\.\\PhysicalDrive2"}

FileKeys == {FirstChar(drive_path) : drive_path \in Devices \cup PhysicalDrives}

\* A health file that does not exist, or is too short for the fread of
\* line 311.
NoFile == [exists |-> FALSE, metrics |-> <<>>]

Alive(t) == threads[t].pc # "none"
AliveThreads == {t \in ThreadIds : Alive(t)}

----------------------------------------------------------------------------
(* State after construction: the zero-initialised statics of lines 13-15.  *)

MonitorInit ==
    /\ g_monitor_initialized = FALSE
    /\ g_monitor_config = ZeroConfig
    /\ drives = [i \in DriveSlots |-> ZeroDrive]
    /\ alerts = [k \in AlertSlots |-> ZeroAlert]
    /\ drive_count = 0
    /\ alert_count = 0
    /\ is_monitoring = FALSE
    /\ monitor_thread = 0
    /\ stop_event = "null"
    /\ threads = [t \in ThreadIds |-> NoThread]
    /\ waiter = NoWaiter
    /\ collected = NothingCollected

\* The statics of usb_health_predictor.c, lines 13-14.
PredictorInit ==
    /\ g_health_predictor_initialized = FALSE
    /\ g_health_network = ZeroNetwork

----------------------------------------------------------------------------
(* Quantum-resistant encryption, src/src/quantum_encryption.c.  A byte     *)
(* array of n bytes is a function over 0 .. n - 1 with values in 0 .. 255. *)

QUANTUM_KEY_SIZE == 32
QUANTUM_SIGNATURE_SIZE == 64
QUANTUM_HASH_SIZE == 32
QUANTUM_MAX_PLAINTEXT == 1048576
QUANTUM_ALGO_SPHINCS_PLUS == 0
QUANTUM_ALGO_CRYSTALS_KYBER == 1
QUANTUM_ALGO_CRYSTALS_DILITHIUM == 2
QUANTUM_ALGO_FALCON == 3
QUANTUM_ALGO_NTRU == 4
QUANTUM_ALGO_MAX == 5
\* header.magic, "QREN" (0x5152454E)
QUANTUM_MAGIC == 1364346190

\* a ^ b on bytes.
RECURSIVE Xor(_, _)
Xor(a, b) ==
    IF a = 0 THEN b
    ELSE IF b = 0 THEN a
    ELSE (((a % 2) + (b % 2)) % 2) + 2 * Xor(a \div 2, b \div 2)

\* (uint8_t)(a + b)
Add8(a, b) == (a + b) % 256

NoBytes == [i \in {} |-> 0]
ZeroBytes(n) == [i \in 0..(n - 1) |-> 0]

\* memset(&g_quantum_context, 0, sizeof(g_quantum_context))
ZeroContext ==
    [algorithm |-> 0,
     master_key |-> ZeroBytes(QUANTUM_KEY_SIZE),
     public_key |-> ZeroBytes(QUANTUM_KEY_SIZE),
     private_key |-> ZeroBytes(QUANTUM_KEY_SIZE),
     session_key |-> ZeroBytes(QUANTUM_KEY_SIZE),
     is_initialized |-> FALSE]

\* A ciphertext buffer that holds no header.  Of quantum_encrypted_header_t
\* the iv and the timestamp, which DecryptData does not read, are left out.
NoHeader ==
    [magic |-> 0, version |-> 0, algorithm |-> 0, data_size |-> 0,
     encrypted_size |-> 0, signature |-> NoBytes, hash |-> NoBytes]

\* The caller's buffers before a call has written to them.
NotSealed == [called |-> FALSE, ret |-> FALSE, header |-> NoHeader,
              encrypted_data |-> NoBytes]
NotOpened == [called |-> FALSE, room |-> FALSE, ret |-> FALSE,
              plaintext |-> NoBytes, plaintext_size |-> 0]

\* Keys that GenerateRandomBytes can deliver: two different ones, so that
\* two draws can be equal or differ.
Keys ==
    {[i \in 0..(QUANTUM_KEY_SIZE - 1) |-> (7 * i + 1) % 256],
     [i \in 0..(QUANTUM_KEY_SIZE - 1) |-> (13 * i + 200) % 256]}

\* The four draws of InitQuantumEncryption.
KeyDraws == [master_key : Keys, public_key : Keys, private_key : Keys,
             session_key : Keys]

\* Where InitQuantumEncryption can give up: GenerateRandomBytes fails for
\* the master key (line 27), for the public or the private key of the pair
\* (line 33) or for the session key (line 39).
InitFailures == {"none", "master_key", "public_key", "private_key", "session_key"}

QuantumInit ==
    /\ g_quantum_initialized = FALSE
    /\ g_quantum_context = ZeroContext
    /\ plain = NoBytes
    /\ sealed = NotSealed
    /\ opened = NotOpened

\* BOOL InitQuantumEncryption(quantum_algorithm_t algorithm), lines 17-49,
\* with the bytes keys that the generators deliver and the generator that
\* fails.  GenerateQuantumKeyPair draws both keys of the pair with
\* GenerateRandomBytes for every algorithm (lines 272-273, 339-340,
\* 394-395 and 451-452).
InitQuantumEncryption(algorithm, keys, failing) ==
    /\ IF g_quantum_initialized
       THEN UNCHANGED <<g_quantum_initialized, g_quantum_context>>
       ELSE LET chosen == [ZeroContext EXCEPT !.algorithm = algorithm]
                with_master == [chosen EXCEPT !.master_key = keys.master_key]
                with_public == [with_master EXCEPT !.public_key = keys.public_key]
                with_pair == [with_public EXCEPT !.private_key = keys.private_key]
            IN CASE failing = "master_key" ->
                      /\ g_quantum_context' = chosen
                      /\ UNCHANGED g_quantum_initialized
                 [] failing = "public_key" ->
                      /\ g_quantum_context' = with_master
                      /\ UNCHANGED g_quantum_initialized
                 [] failing = "private_key" ->
                      /\ g_quantum_context' = with_public
                      /\ UNCHANGED g_quantum_initialized
                 [] failing = "session_key" ->
                      /\ g_quantum_context' = with_pair
                      /\ UNCHANGED g_quantum_initialized
                 [] OTHER ->
                      /\ g_quantum_context' =
                            [with_pair EXCEPT !.session_key = keys.session_key,
                                              !.is_initialized = TRUE]
                      /\ g_quantum_initialized' = TRUE
    /\ UNCHANGED <<plain, sealed, opened, monitor, predictor>>

\* void CleanupQuantumEncryption(void), lines 52-59.
CleanupQuantumEncryption ==
    /\ IF g_quantum_initialized
       THEN /\ g_quantum_context' = ZeroContext
            /\ g_quantum_initialized' = FALSE
       ELSE UNCHANGED <<g_quantum_initialized, g_quantum_context>>
    /\ UNCHANGED <<plain, sealed, opened, monitor, predictor>>

\* hash[j] of HashData (lines 533-535): the bytes data[j], data[j + 32],
\* ... below data_size, folded with ^.
RECURSIVE HashFold(_, _, _)
HashFold(data, j, data_size) ==
    IF j >= data_size THEN 0
    ELSE Xor(data[j], HashFold(data, j + QUANTUM_HASH_SIZE, data_size))

\* BOOL HashData(data, data_size, hash), for data_size > 0: the hash.
HashData(data, data_size) ==
    [j \in 0..(QUANTUM_HASH_SIZE - 1) |-> HashFold(data, j, data_size)]

\* The loops of lines 120-122, 128-130, 221-223, 229-231, 414-416 and
\* 433-435: data ^ key[i % QUANTUM_KEY_SIZE] over size bytes.
XorWithKey(data, size, key) ==
    [i \in 0..(size - 1) |-> Xor(data[i], key[i % QUANTUM_KEY_SIZE])]

\* BOOL KYBER_Encrypt(plaintext, plaintext_size, public_key, ...): the
\* ciphertext; *ciphertext_size is plaintext_size.
KYBER_Encrypt(plaintext, plaintext_size, public_key) ==
    XorWithKey(plaintext, plaintext_size, public_key)

\* BOOL KYBER_Decrypt(ciphertext, ciphertext_size, private_key, ...): the
\* plaintext; *plaintext_size is ciphertext_size.
KYBER_Decrypt(ciphertext, ciphertext_size, private_key) ==
    XorWithKey(ciphertext, ciphertext_size, private_key)

\* The signature loops of lines 296-298, 321-323, 359-361, 377-379, 471-473
\* and 489-491: (uint8_t)((message[i % size] + terms[i]) ^ mask).
Signature(message, message_size, terms, mask) ==
    [i \in 0..(QUANTUM_SIGNATURE_SIZE - 1) |->
        Xor(Add8(message[i % message_size], terms[i]), mask)]

KeyedSignature(message, message_size, key, mask) ==
    Signature(message, message_size,
              [i \in 0..(QUANTUM_SIGNATURE_SIZE - 1) |-> key[i % QUANTUM_KEY_SIZE]],
              mask)

\* The fallback of SignData and VerifySignature: (data[i % size] + i) ^ 0x55.
SimpleSignature(data, data_size) ==
    Signature(data, data_size, [i \in 0..(QUANTUM_SIGNATURE_SIZE - 1) |-> i], 85)

\* SPHINCS_Sign and DILITHIUM_Sign, with the masks 0xAA and 0xCC.
SPHINCS_Sign(message, message_size, private_key) ==
    KeyedSignature(message, message_size, private_key, 170)
DILITHIUM_Sign(message, message_size, private_key) ==
    KeyedSignature(message, message_size, private_key, 204)

\* SPHINCS_Verify and DILITHIUM_Verify: the signature expected from the
\* public key, compared with CompareBytes.
SPHINCS_Verify(message, message_size, signature, public_key) ==
    signature = KeyedSignature(message, message_size, public_key, 170)
DILITHIUM_Verify(message, message_size, signature, public_key) ==
    signature = KeyedSignature(message, message_size, public_key, 204)

\* BOOL SignData(data, data_size, signature), for data_size > 0: the
\* signature.
SignData(data, data_size) ==
    CASE g_quantum_context.algorithm = QUANTUM_ALGO_SPHINCS_PLUS ->
           SPHINCS_Sign(data, data_size, g_quantum_context.private_key)
      [] g_quantum_context.algorithm = QUANTUM_ALGO_CRYSTALS_DILITHIUM ->
           DILITHIUM_Sign(data, data_size, g_quantum_context.private_key)
      [] OTHER -> SimpleSignature(data, data_size)

\* BOOL VerifySignature(data, data_size, signature, public_key)
VerifySignature(data, data_size, signature, public_key) ==
    /\ data_size # 0
    /\ CASE g_quantum_context.algorithm = QUANTUM_ALGO_SPHINCS_PLUS ->
              SPHINCS_Verify(data, data_size, signature, public_key)
         [] g_quantum_context.algorithm = QUANTUM_ALGO_CRYSTALS_DILITHIUM ->
              DILITHIUM_Verify(data, data_size, signature, public_key)
         [] OTHER -> signature = SimpleSignature(data, data_size)

\* Lines 109-133 of EncryptData: the encrypted data; its size is
\* plaintext_size in every branch.
EncryptedData(plaintext, plaintext_size) ==
    CASE g_quantum_context.algorithm = QUANTUM_ALGO_CRYSTALS_KYBER ->
           KYBER_Encrypt(plaintext, plaintext_size, g_quantum_context.public_key)
      [] g_quantum_context.algorithm = QUANTUM_ALGO_NTRU ->
           XorWithKey(plaintext, plaintext_size, g_quantum_context.session_key)
      [] OTHER ->
           XorWithKey(plaintext, plaintext_size, g_quantum_context.master_key)

\* BOOL EncryptData(plaintext, plaintext_size, ciphertext, ciphertext_size),
\* lines 62-162: the return value and the ciphertext buffer.  room says
\* that *ciphertext_size is at least sizeof(header) + the encrypted size;
\* failed says that the generator of the iv or malloc fails.
EncryptData_out(plaintext, plaintext_size, room, failed) ==
    IF \/ plaintext_size = 0
       \/ plaintext_size > QUANTUM_MAX_PLAINTEXT
       \/ failed
       \/ ~room
    THEN [NotSealed EXCEPT !.called = TRUE]
    ELSE LET encrypted_data == EncryptedData(plaintext, plaintext_size)
         IN [called |-> TRUE,
             ret |-> TRUE,
             header |-> [magic |-> QUANTUM_MAGIC,
                         version |-> 1,
                         algorithm |-> g_quantum_context.algorithm,
                         data_size |-> plaintext_size,
                         encrypted_size |-> plaintext_size,
                         signature |-> SignData(encrypted_data, plaintext_size),
                         hash |-> HashData(plaintext, plaintext_size)],
             encrypted_data |-> encrypted_data]

\* The caller fills its plaintext buffer and calls EncryptData.
EncryptData(plaintext, plaintext_size, room, failed) ==
    /\ plain' = plaintext
    /\ sealed' = EncryptData_out(plaintext, plaintext_size, room, failed)
    /\ opened' = NotOpened
    /\ UNCHANGED <<g_quantum_initialized, g_quantum_context, monitor, predictor>>

\* Lines 210-234 of DecryptData: the bytes written to the plaintext buffer.
DecryptedData(header, encrypted_data) ==
    CASE header.algorithm = QUANTUM_ALGO_CRYSTALS_KYBER ->
           KYBER_Decrypt(encrypted_data, header.encrypted_size,
                         g_quantum_context.private_key)
      [] header.algorithm = QUANTUM_ALGO_NTRU ->
           XorWithKey(encrypted_data, header.data_size, g_quantum_context.session_key)
      [] OTHER ->
           XorWithKey(encrypted_data, header.data_size, g_quantum_context.master_key)

\* BOOL DecryptData(ciphertext, ciphertext_size, plaintext, plaintext_size),
\* lines 165-250, on a ciphertext buffer that holds a header and its data:
\* the return value and the plaintext buffer.  room says that
\* *plaintext_size is at least header.data_size.
DecryptData_out(ciphertext, room) ==
    LET header == ciphertext.header
        refused == [NotOpened EXCEPT !.called = TRUE, !.room = room]
    IN IF \/ header.magic # QUANTUM_MAGIC
          \/ header.algorithm # g_quantum_context.algorithm
          \/ ~room
          \/ ~VerifySignature(ciphertext.encrypted_data, header.encrypted_size,
                              header.signature, g_quantum_context.public_key)
       THEN refused
       ELSE LET plaintext == DecryptedData(header, ciphertext.encrypted_data)
                plaintext_size ==
                    IF header.algorithm = QUANTUM_ALGO_CRYSTALS_KYBER
                    THEN header.encrypted_size ELSE header.data_size
            IN [called |-> TRUE,
                room |-> room,
                ret |-> /\ plaintext_size # 0
                        /\ header.hash = HashData(plaintext, plaintext_size),
                plaintext |-> plaintext,
                plaintext_size |-> plaintext_size]

\* The caller hands the buffer EncryptData has filled to DecryptData.
DecryptData(room) ==
    /\ sealed.ret
    /\ opened' = DecryptData_out(sealed, room)
    /\ UNCHANGED <<g_quantum_initialized, g_quantum_context, plain, sealed,
                   monitor, predictor>>

\* The caller is done with its buffers.
ReleaseBuffers ==
    /\ plain' = NoBytes
    /\ sealed' = NotSealed
    /\ opened' = NotOpened
    /\ UNCHANGED <<g_quantum_initialized, g_quantum_context, monitor, predictor>>

\* The plaintexts of the caller: none, one byte, two bytes, one byte more
\* than a key, and the length of a signature.
PlainSizes == {0, 1, 2, QUANTUM_KEY_SIZE + 1, QUANTUM_SIGNATURE_SIZE}
Plain(n) == [i \in 0..(n - 1) |-> (37 * i + 65) % 256]

QuantumNext ==
    \/ \E algorithm \in 0..(QUANTUM_ALGO_MAX - 1), keys \in KeyDraws,
          failing \in InitFailures :
          sealed = NotSealed /\ InitQuantumEncryption(algorithm, keys, failing)
    \/ sealed = NotSealed /\ CleanupQuantumEncryption
    \/ \E n \in PlainSizes, room \in BOOLEAN, failed \in BOOLEAN :
          EncryptData(Plain(n), n, room, failed)
    \/ \E room \in BOOLEAN : DecryptData(room)
    \/ ReleaseBuffers

\* The program on a machine that holds no health file.
Init ==
    /\ MonitorInit
    /\ PredictorInit
    /\ QuantumInit
    /\ health_files = [c \in FileKeys |-> NoFile]

----------------------------------------------------------------------------
(* Public calls.  Each is one action: the code takes no lock, but a call   *)
(* is short next to the poll loop, whose statements are the ones spread    *)
(* over several steps.  StopDriveMonitoring(NULL) is the exception: it     *)
(* blocks in WaitForSingleObject, and other calls and the loop go on       *)
(* meanwhile.                                                              *)

\* The registry slots whose drive_path compares equal (strcmp) to the argument.
SlotsOf(drive_path) ==
    {i \in DriveSlots : i < drive_count /\ drives[i].drive_path = drive_path}

\* BOOL IsDriveBeingMonitored(const char* drive_path): the first matching
\* slot decides.
IsDriveBeingMonitored(drive_path) ==
    IF drive_path = NULL \/ ~g_monitor_initialized THEN FALSE
    ELSE IF SlotsOf(drive_path) = {} THEN FALSE
    ELSE drives[Min(SlotsOf(drive_path))].is_monitoring

\* BOOL GetDriveHealthStatus(drive_path, data): the return value, and the
\* record memcpy'd to *data (the first matching slot).
GetDriveHealthStatus_ret(drive_path) ==
    drive_path # NULL /\ g_monitor_initialized /\ SlotsOf(drive_path) # {}

GetDriveHealthStatus(drive_path) == drives[Min(SlotsOf(drive_path))]

\* BOOL GetMonitoringAlerts(alerts, alert_count): *alert_count and the
\* entries memcpy'd out.  Entries past the end of the array are out of the
\* model's reach and are left out.
GetMonitoringAlerts ==
    [count |-> alert_count,
     alerts |-> [k \in {j \in AlertSlots : j < alert_count} |-> alerts[k]]]

\* A thread identifier for CreateThread: not in use, and not the handle a
\* blocked stop still waits on.
FreeThreads == {t \in ThreadIds : ~Alive(t) /\ t # waiter.handle}

\* InitRealTimeMonitor with a CreateThread(MonitorThreadProc) of its own.
InitThreads_launching ==
    [threads EXCEPT ![Min(FreeThreads)] = [NoThread EXCEPT !.pc = "while"]]

\* The threads after InitRealTimeMonitor: it creates the stop event (line
\* 51) and no thread.
InitThreads == threads

\* The return value of InitRealTimeMonitor: TRUE at once on an initialised
\* engine (lines 19-21), otherwise whether the stop event was created
\* (lines 51-59).
InitRealTimeMonitor_ret(config, created) == g_monitor_initialized \/ created

\* BOOL InitRealTimeMonitor(const monitor_config_t* config).  created is
\* whether CreateEvent succeeds.
InitRealTimeMonitor(config, created) ==
    IF g_monitor_initialized THEN UNCHANGED vars
    ELSE /\ g_monitor_config' = IF config = NULL THEN DefaultConfig
                                 ELSE ConfigAt(config)
         /\ drives' = [i \in DriveSlots |-> ZeroDrive]
         /\ alerts' = [k \in AlertSlots |-> ZeroAlert]
         /\ drive_count' = 0
         /\ alert_count' = 0
         /\ is_monitoring' = FALSE
         /\ monitor_thread' = 0
         /\ stop_event' = IF created THEN "clear" ELSE "null"
         /\ g_monitor_initialized' = created
         /\ threads' = InitThreads
         /\ collected' = NothingCollected
         /\ UNCHANGED <<waiter, predictor, quantum>>

\* The tail of CleanupRealTimeMonitor, after its StopDriveMonitoring(NULL)
\* has returned: lines 69-77.
CleanupTail ==
    /\ drives' = [i \in DriveSlots |-> ZeroDrive]
    /\ alerts' = [k \in AlertSlots |-> ZeroAlert]
    /\ drive_count' = 0
    /\ alert_count' = 0
    /\ is_monitoring' = FALSE
    /\ monitor_thread' = 0
    /\ stop_event' = "null"
    /\ g_monitor_initialized' = FALSE
    /\ collected' = NothingCollected

\* The registry after StopDriveMonitoring(drive_path): NULL deactivates every
\* record, a path the first slot that carries it.
StopDrives(drive_path) ==
    IF drive_path = NULL
    THEN [i \in DriveSlots |->
            IF i < drive_count THEN [drives[i] EXCEPT !.is_monitoring = FALSE]
            ELSE drives[i]]
    ELSE IF SlotsOf(drive_path) = {} THEN drives
    ELSE [drives EXCEPT ![Min(SlotsOf(drive_path))].is_monitoring = FALSE]

\* BOOL StopDriveMonitoring(const char* drive_path): the return value.
StopDriveMonitoring_ret(drive_path) ==
    /\ g_monitor_initialized
    /\ drive_path = NULL \/ SlotsOf(drive_path) # {}

\* StopDriveMonitoring(drive_path) for one drive, lines 174-183.
StopDriveMonitoring(drive_path) ==
    /\ drive_path # NULL
    /\ IF ~g_monitor_initialized THEN UNCHANGED vars
       ELSE /\ drives' = StopDrives(drive_path)
            /\ UNCHANGED <<g_monitor_initialized, g_monitor_config, alerts,
                           drive_count, alert_count, is_monitoring,
                           monitor_thread, stop_event, threads, waiter,
                   collected, predictor, quantum>>

\* StopDriveMonitoring(NULL), lines 153-172.  With the engine marked running
\* and a thread handle at hand the call blocks in WaitForSingleObject (line
\* 165): the step ends there and WaitReturns models the rest.  One context
\* issues the engine's stops and cleanups, so none starts while another is
\* still in its wait.
StopAllDrives ==
    /\ waiter = NoWaiter
    /\ g_monitor_initialized
    /\ drives' = StopDrives(NULL)
    /\ is_monitoring' = FALSE
    /\ stop_event' = IF is_monitoring THEN "set" ELSE stop_event
    /\ waiter' = IF is_monitoring /\ monitor_thread # 0
                 THEN [kind |-> "stop", handle |-> monitor_thread]
                 ELSE NoWaiter
    /\ UNCHANGED <<g_monitor_initialized, g_monitor_config, alerts, drive_count,
                   alert_count, monitor_thread, threads,
                   collected, predictor, quantum>>

\* void CleanupRealTimeMonitor(void): StopDriveMonitoring(NULL), as above,
\* and then, at once or when the wait returns, the tail.
CleanupRealTimeMonitor ==
    /\ waiter = NoWaiter
    /\ g_monitor_initialized
    /\ IF is_monitoring /\ monitor_thread # 0
       THEN /\ drives' = StopDrives(NULL)
            /\ is_monitoring' = FALSE
            /\ stop_event' = "set"
            /\ waiter' = [kind |-> "cleanup", handle |-> monitor_thread]
            /\ UNCHANGED <<g_monitor_initialized, g_monitor_config, alerts,
                           drive_count, alert_count, monitor_thread, threads,
                           collected, predictor, quantum>>
       ELSE CleanupTail /\ UNCHANGED <<g_monitor_config, threads, waiter,
                                      predictor, quantum>>

\* WaitForSingleObject(monitor_thread, 5000) returns: the thread has ended,
\* or the 5 s have passed (possible at any moment: the model has no clock).
\* Then lines 166-167, and the rest of CleanupRealTimeMonitor for its call.
WaitReturns ==
    /\ waiter # NoWaiter
    /\ waiter' = NoWaiter
    /\ IF waiter.kind = "cleanup"
       THEN CleanupTail /\ UNCHANGED <<g_monitor_config, threads, predictor, quantum>>
       ELSE /\ monitor_thread' = 0
            /\ UNCHANGED <<g_monitor_initialized, g_monitor_config, drives,
                           alerts, drive_count, alert_count, is_monitoring,
                           stop_event, threads,
                   collected, predictor, quantum>>

\* Line 132: the thread is created when the engine is not marked running.
ShouldLaunch == ~is_monitoring

\* Line 100: a new slot is taken unless the drive is reported as monitored.
AlreadyMonitored(drive_path) == IsDriveBeingMonitored(drive_path)

\* Lines 105-108 without the test: a slot is taken whatever drive_count is.
RegistryFull_never == FALSE

\* Lines 105-108: no slot is left.
RegistryFull == drive_count >= MONITOR_MAX_DRIVES

\* Lines 110-140: the new record goes to drives[drive_count], drive_count
\* is counted up and the thread is created when the engine is not marked
\* running.  With drive_count at or past MONITOR_MAX_DRIVES the record is
\* written past the end of drives[], onto the alert log that follows it in
\* monitor_context_t: the first entries of the log keep their value or are
\* overwritten.
Register(drive_path, created) ==
    /\ IF drive_count \in DriveSlots
       THEN /\ drives' = [drives EXCEPT ![drive_count] = NewDrive(drive_path)]
            /\ collected' = [collected EXCEPT ![drive_count] = <<>>]
            /\ UNCHANGED alerts
       ELSE /\ UNCHANGED <<drives, collected>>
            /\ \E hit \in BOOLEAN :
                 alerts' = IF hit
                           THEN [alerts EXCEPT ![0] =
                                   [ZeroAlert EXCEPT !.drive_path = drive_path]]
                           ELSE alerts
    /\ drive_count' = drive_count + 1
    /\ IF ShouldLaunch
       THEN /\ FreeThreads # {}
            /\ IF created
               THEN /\ is_monitoring' = TRUE
                    /\ monitor_thread' = Min(FreeThreads)
                    /\ threads' = [threads EXCEPT ![Min(FreeThreads)] =
                                     [NoThread EXCEPT !.pc = "while"]]
               ELSE /\ is_monitoring' = FALSE
                    /\ monitor_thread' = 0
                    /\ UNCHANGED threads
       ELSE UNCHANGED <<is_monitoring, monitor_thread, threads>>
    /\ UNCHANGED <<g_monitor_initialized, g_monitor_config, alert_count,
                   stop_event, predictor, quantum>>

\* BOOL StartDriveMonitoring(const char* drive_path): the return value.
StartDriveMonitoring_ret(drive_path, created) ==
    IF ~g_monitor_initialized THEN FALSE
    ELSE IF drive_path = NULL THEN TRUE
    ELSE IF AlreadyMonitored(drive_path) THEN TRUE
    ELSE IF RegistryFull THEN FALSE
    ELSE ~ShouldLaunch \/ created

\* BOOL StartDriveMonitoring(const char* drive_path).  created is whether
\* CreateThread succeeds.
StartDriveMonitoring(drive_path, created) ==
    IF ~g_monitor_initialized THEN UNCHANGED vars
    ELSE IF drive_path = NULL
    THEN /\ drives' = [i \in DriveSlots |->
                         IF i < drive_count
                         THEN [drives[i] EXCEPT !.is_monitoring = TRUE]
                         ELSE drives[i]]
         /\ UNCHANGED <<g_monitor_initialized, g_monitor_config, alerts,
                        drive_count, alert_count, is_monitoring,
                        monitor_thread, stop_event, threads, waiter,
                   collected, predictor, quantum>>
    ELSE IF AlreadyMonitored(drive_path) THEN UNCHANGED vars
    ELSE IF RegistryFull THEN UNCHANGED vars
    ELSE Register(drive_path, created) /\ UNCHANGED waiter

\* A StartDriveMonitoring(drive_path) from one context that has passed its
\* checks (lines 87-108) and has not yet reached line 110: the code takes no
\* lock, and calls from other contexts run meanwhile.
StartDriveMonitoring_checked(drive_path) ==
    /\ waiter = NoWaiter
    /\ g_monitor_initialized
    /\ drive_path # NULL
    /\ ~AlreadyMonitored(drive_path)
    /\ ~RegistryFull
    /\ waiter' = [kind |-> "start", handle |-> 0, drive_path |-> drive_path]
    /\ UNCHANGED <<g_monitor_initialized, g_monitor_config, context, threads,
                   collected, predictor, quantum>>

\* The rest of that call, lines 110-143, with drive_count as it is by then.
StartDriveMonitoring_resumed(created) ==
    /\ waiter.kind = "start"
    /\ Register(waiter.drive_path, created)
    /\ waiter' = NoWaiter

\* BOOL AcknowledgeAlert(uint32_t alert_index): the return value.
AcknowledgeAlert_ret(alert_index) ==
    g_monitor_initialized /\ alert_index < alert_count

\* BOOL AcknowledgeAlert(uint32_t alert_index)
AcknowledgeAlert(alert_index) ==
    IF ~g_monitor_initialized \/ alert_index >= alert_count THEN UNCHANGED vars
    ELSE /\ alerts' = [alerts EXCEPT ![alert_index].is_acknowledged = TRUE]
         /\ UNCHANGED <<g_monitor_initialized, g_monitor_config, drives,
                        drive_count, alert_count, is_monitoring,
                        monitor_thread, stop_event, threads, waiter,
                   collected, predictor, quantum>>

\* BOOL ClearAllAlerts(void)
ClearAllAlerts ==
    IF ~g_monitor_initialized THEN UNCHANGED vars
    ELSE /\ alert_count' = 0
         /\ alerts' = [k \in AlertSlots |-> ZeroAlert]
         /\ UNCHANGED <<g_monitor_initialized, g_monitor_config, drives,
                        drive_count, is_monitoring, monitor_thread,
                        stop_event, threads, waiter,
                   collected, predictor, quantum>>

----------------------------------------------------------------------------
(* The poll loop: DWORD WINAPI MonitorThreadProc(LPVOID), one step per     *)
(* statement that reads or writes shared state.  A thread's locals are     *)
(* pc (where it is), i (the registry index of the for loop), m (the metric *)
(* index of the loop it is in) and k (the alert slot CreateAlert took).    *)

FirstMetric == Min(Metrics)

\* The next modelled metric index after m, MONITOR_METRIC_MAX when the loop
\* over the metrics is over.
NextMetric(m) ==
    IF {n \in Metrics : n > m} = {} THEN MONITOR_METRIC_MAX
    ELSE Min({n \in Metrics : n > m})

\* float GetMetricThreshold(monitor_metric_t metric), in tenths.
GetMetricThreshold(metric) ==
    CASE metric = 0 -> 600
      [] metric = 1 -> 50
      [] metric = 2 -> 50
      [] metric = 3 -> 5
      [] metric = 4 -> 50
      [] metric = 5 -> 30
      [] metric = 6 -> 8
      [] metric = 7 -> 900
      [] metric = 8 -> 800
      [] OTHER -> 0

\* Line 603 with > in place of >=.
IsMetricCritical_above(metric, value) ==
    value * 10 > GetMetricThreshold(metric) * g_monitor_config.critical_threshold

\* value >= threshold * critical_threshold, both sides times 100.
IsMetricCritical(metric, value) ==
    value * 10 >= GetMetricThreshold(metric) * g_monitor_config.critical_threshold

\* CheckForAlerts without its else branch of lines 384-387: no warnings.
IsMetricWarning_never(metric, value) == FALSE

IsMetricWarning(metric, value) ==
    value * 10 >= GetMetricThreshold(metric) * g_monitor_config.warning_threshold

\* Lines 341-353 with max_metrics and min_metrics following the latest
\* sample, without the comparisons of lines 349 and 352.
UpdateMetric_latest(data, m, value) ==
    [data EXCEPT
       !.current_metrics[m] = value,
       !.average_metrics[m] =
           Frac(data.average_metrics[m][1] * data.data_points
                  + value * data.average_metrics[m][2],
                data.average_metrics[m][2] * (data.data_points + 1)),
       !.max_metrics[m] = value,
       !.min_metrics[m] = value]

\* Lines 341-353 with the mean of the old mean and the new value in place
\* of the weighted one of lines 345-346.
UpdateMetric_unweighted(data, m, value) ==
    [data EXCEPT
       !.current_metrics[m] = value,
       !.average_metrics[m] =
           Frac(data.average_metrics[m][1] + value * data.average_metrics[m][2],
                data.average_metrics[m][2] * 2),
       !.max_metrics[m] = IF value > @ THEN value ELSE @,
       !.min_metrics[m] = IF value < @ THEN value ELSE @]

\* Lines 341-353 for one metric: current, running mean, max and min.
UpdateMetric(data, m, value) ==
    [data EXCEPT
       !.current_metrics[m] = value,
       !.average_metrics[m] =
           Frac(data.average_metrics[m][1] * data.data_points
                  + value * data.average_metrics[m][2],
                data.average_metrics[m][2] * (data.data_points + 1)),
       !.max_metrics[m] = IF value > @ THEN value ELSE @,
       !.min_metrics[m] = IF value < @ THEN value ELSE @]

\* What the uninitialised local new_metrics[m] (line 298) may hold.
Uninitialised == Samples

\* new_metrics[m] as the loop of lines 340-354 finds it, after lines
\* 305-337.  With the metric enabled the collector is called: it stores one
\* of samples and returns TRUE ("sampled"), or, where collectors may fail
\* (failing), returns FALSE and stores nothing ("failed"); with the metric
\* disabled no collector is called ("off").  Where nothing was stored the
\* value is what the uninitialised local holds.  UpdateDriveMetrics
\* discards the collectors' return values.  The collectors depend on no
\* shared state, so each value is drawn when the loop reaches it.
Collect(m, samples, failing) ==
    IF g_monitor_config.enable[m]
    THEN {[metric |-> m, result |-> "sampled", value |-> v] : v \in samples}
         \cup {[metric |-> m, result |-> "failed", value |-> v] :
                  v \in IF failing THEN Uninitialised ELSE {}}
    ELSE {[metric |-> m, result |-> "off", value |-> v] : v \in Uninitialised}

\* Line 268 as while (TRUE): only the stop event ends the loop.
LoopCondition_forever == TRUE

\* The while condition of line 268.
LoopCondition == is_monitoring

\* Line 275 without its test: every registered record is visited.
VisitsDrive_every(i) == TRUE

\* Line 275: the record is visited when it is marked as monitored.
VisitsDrive(i) == drives[i].is_monitoring

\* A new tick is taken only while the sample counter of every registered
\* record, monitored or not, is below the bound n.
TickAllowedWithin(n) ==
    \A i \in DriveSlots : i < drive_count => drives[i].data_points < n

TickAllowed == TickAllowedWithin(MaxPoints)

SetThread(t, pc, i, m, k) ==
    threads' = [threads EXCEPT ![t] = [pc |-> pc, i |-> i, m |-> m, k |-> k]]

\* Lines 268-272: leave when the engine is not marked running; otherwise
\* either the update interval has passed (due) or it has not.
ThreadWhile(t, due) ==
    /\ threads[t].pc = "while"
    /\ IF ~LoopCondition THEN threads' = [threads EXCEPT ![t] = NoThread]
       ELSE IF due THEN SetThread(t, "for", 0, 0, 0)
       ELSE SetThread(t, "wait", 0, 0, 0)
    /\ UNCHANGED <<g_monitor_initialized, g_monitor_config, context, waiter,
                   collected, predictor, quantum>>

\* The choices of due the model follows: a tick is due only while the bound
\* n on the sample counters allows one.
Due(n) == {due \in BOOLEAN : due => TickAllowedWithin(n)}

\* Lines 274-279: the for loop's test and the call of UpdateDriveMetrics.
ThreadFor(t) ==
    /\ threads[t].pc = "for"
    /\ LET i == threads[t].i IN
       IF i < drive_count /\ i \in DriveSlots
       THEN IF VisitsDrive(i) THEN SetThread(t, "update", i, FirstMetric, 0)
            ELSE SetThread(t, "for", i + 1, 0, 0)
       ELSE SetThread(t, "wait", 0, 0, 0)
    /\ UNCHANGED <<g_monitor_initialized, g_monitor_config, context, waiter,
                   collected, predictor, quantum>>

\* Lines 340-354, one metric.
ThreadUpdate(t, samples, failing) ==
    /\ threads[t].pc = "update"
    /\ LET i == threads[t].i
           m == threads[t].m
       IN /\ \E new \in Collect(m, samples, failing) :
                /\ drives' = [drives EXCEPT ![i] = UpdateMetric(drives[i], m, new.value)]
                /\ collected' = [collected EXCEPT ![i] = Append(@, new)]
          /\ IF NextMetric(m) = MONITOR_METRIC_MAX
             THEN SetThread(t, "count", i, 0, 0)
             ELSE SetThread(t, "update", i, NextMetric(m), 0)
    /\ UNCHANGED <<g_monitor_initialized, g_monitor_config, alerts, drive_count,
                   alert_count, is_monitoring, monitor_thread, stop_event, waiter,
                   predictor, quantum>>

\* Line 356: data->data_points++.
ThreadCount(t) ==
    /\ threads[t].pc = "count"
    /\ LET i == threads[t].i IN
       /\ drives' = [drives EXCEPT ![i].data_points = @ + 1]
       /\ SetThread(t, "check", i, FirstMetric, 0)
    /\ UNCHANGED <<g_monitor_initialized, g_monitor_config, alerts, drive_count,
                   alert_count, is_monitoring, monitor_thread, stop_event, waiter,
                   collected, predictor, quantum>>

\* As AfterCheck, with a poll loop that returns when a collector has
\* failed in the update it has just finished.
AfterCheck_aborting(t) ==
    IF \E k \in 1..Len(collected[threads[t].i]) :
          collected[threads[t].i][k].result = "failed"
    THEN threads' = [threads EXCEPT ![t] = NoThread]
    ELSE IF NextMetric(threads[t].m) = MONITOR_METRIC_MAX
    THEN SetThread(t, "for", threads[t].i + 1, 0, 0)
    ELSE SetThread(t, "check", threads[t].i, NextMetric(threads[t].m), 0)

\* Where the thread goes after metric m of CheckForAlerts: the next metric,
\* or back to the for loop of MonitorThreadProc with i + 1.
AfterCheck(t) ==
    IF NextMetric(threads[t].m) = MONITOR_METRIC_MAX
    THEN SetThread(t, "for", threads[t].i + 1, 0, 0)
    ELSE SetThread(t, "check", threads[t].i, NextMetric(threads[t].m), 0)

\* The entry CreateAlert writes (lines 407-416).
NewAlert(drive_path, metric, current_value, is_critical) ==
    [drive_path |-> drive_path,
     metric |-> metric,
     current_value |-> current_value,
     threshold_value |-> GetMetricThreshold(metric),
     is_critical |-> is_critical,
     is_acknowledged |-> FALSE,
     alert_message |-> IF is_critical THEN "Critical threshold exceeded"
                       ELSE "Warning threshold exceeded"]

\* Lines 397-399 alone: CreateAlert without the capacity test of line 401.
CreateAlertRejects_uninitialised == ~g_monitor_initialized

\* Lines 397-403: CreateAlert gives up before it writes anything.
CreateAlertRejects ==
    ~g_monitor_initialized \/ alert_count >= AlertCapacity

\* Lines 379-387 for one metric, up to the point where CreateAlert has
\* written its entry (lines 405-416) but not yet counted it.
ThreadCheck(t) ==
    /\ threads[t].pc = "check"
    /\ LET i == threads[t].i
           m == threads[t].m
           value == drives[i].current_metrics[m]
           critical == IsMetricCritical(m, value)
       IN IF ~critical /\ ~IsMetricWarning(m, value)
          THEN AfterCheck(t) /\ UNCHANGED <<drives, alerts>>
          ELSE IF CreateAlertRejects
          THEN /\ drives' = IF critical
                            THEN [drives EXCEPT ![i].error_count = @ + 1]
                            ELSE [drives EXCEPT ![i].warning_count = @ + 1]
               /\ AfterCheck(t)
               /\ UNCHANGED alerts
          ELSE /\ alerts' = [alerts EXCEPT ![alert_count] =
                               NewAlert(drives[i].drive_path, m, value, critical)]
               /\ SetThread(t, IF critical THEN "alert_critical" ELSE "alert_warning",
                            i, m, alert_count)
               /\ UNCHANGED drives
    /\ UNCHANGED <<g_monitor_initialized, g_monitor_config, drive_count,
                   alert_count, is_monitoring, monitor_thread, stop_event, waiter,
                   collected, predictor, quantum>>

\* Line 418, g_monitor_context.alert_count++, and back in CheckForAlerts
\* the record's error_count++ or warning_count++ (lines 382 and 386).
ThreadAlert(t) ==
    /\ threads[t].pc \in {"alert_critical", "alert_warning"}
    /\ alert_count' = alert_count + 1
    /\ drives' = IF threads[t].pc = "alert_critical"
                 THEN [drives EXCEPT ![threads[t].i].error_count = @ + 1]
                 ELSE [drives EXCEPT ![threads[t].i].warning_count = @ + 1]
    /\ AfterCheck(t)
    /\ UNCHANGED <<g_monitor_initialized, g_monitor_config, alerts, drive_count,
                   is_monitoring, monitor_thread, stop_event, waiter,
                   collected, predictor, quantum>>

\* Lines 285-288: WaitForSingleObject(stop_event, 100) returns WAIT_OBJECT_0
\* when the event is signalled; a timeout, or the failure on a closed
\* (NULL) handle, goes round the loop.
ThreadWait(t) ==
    /\ threads[t].pc = "wait"
    /\ IF stop_event = "set" THEN threads' = [threads EXCEPT ![t] = NoThread]
       ELSE SetThread(t, "while", 0, 0, 0)
    /\ UNCHANGED <<g_monitor_initialized, g_monitor_config, context, waiter,
                   collected, predictor, quantum>>

\* One step of thread t, with the collectors returning values of samples.
MonitorThreadProc(t, samples) ==
    \/ \E due \in Due(MaxPoints) : ThreadWhile(t, due)
    \/ ThreadFor(t)
    \/ ThreadUpdate(t, samples, FALSE)
    \/ ThreadCount(t)
    \/ ThreadCheck(t)
    \/ ThreadAlert(t)
    \/ ThreadWait(t)

\* The poll loop over up to MaxTicks ticks, with a sensor behind the
\* collector.
MonitorThreadSensor(t) ==
    \/ \E due \in Due(MaxTicks) : ThreadWhile(t, due)
    \/ ThreadFor(t)
    \/ ThreadUpdate(t, SensorValues, FALSE)
    \/ ThreadCount(t)
    \/ ThreadCheck(t)
    \/ ThreadAlert(t)
    \/ ThreadWait(t)

\* The poll loop with collectors that may fail.
MonitorThreadFailing(t) ==
    \/ \E due \in Due(MaxPoints) : ThreadWhile(t, due)
    \/ ThreadFor(t)
    \/ ThreadUpdate(t, CriticalSamples, TRUE)
    \/ ThreadCount(t)
    \/ ThreadCheck(t)
    \/ ThreadAlert(t)
    \/ ThreadWait(t)

\* The poll loop on drives whose samples stay below every threshold:
\* CheckForAlerts never calls CreateAlert, so ThreadAlert has no step.
MonitorThreadQuiet(t) ==
    \/ \E due \in Due(MaxPoints) : ThreadWhile(t, due)
    \/ ThreadFor(t)
    \/ ThreadUpdate(t, QuietSamples, FALSE)
    \/ ThreadCount(t)
    \/ ThreadCheck(t)
    \/ ThreadWait(t)

\* CheckForAlerts and CreateAlert followed field by field.  Lines 379-412
\* for one metric: as ThreadCheck, the entry is chosen (line 405) and its
\* fields are written, but the thread is still inside the writes: lines
\* 413-416 are to come.
ThreadCheckSlot(t) ==
    /\ threads[t].pc = "check"
    /\ LET i == threads[t].i
           m == threads[t].m
           value == drives[i].current_metrics[m]
           critical == IsMetricCritical(m, value)
       IN IF ~critical /\ ~IsMetricWarning(m, value)
          THEN AfterCheck(t) /\ UNCHANGED <<drives, alerts>>
          ELSE IF CreateAlertRejects
          THEN /\ drives' = IF critical
                            THEN [drives EXCEPT ![i].error_count = @ + 1]
                            ELSE [drives EXCEPT ![i].warning_count = @ + 1]
               /\ AfterCheck(t)
               /\ UNCHANGED alerts
          ELSE /\ alerts' = [alerts EXCEPT ![alert_count] =
                               NewAlert(drives[i].drive_path, m, value, critical)]
               /\ SetThread(t, IF critical THEN "write_critical" ELSE "write_warning",
                            i, m, alert_count)
               /\ UNCHANGED drives
    /\ UNCHANGED <<g_monitor_initialized, g_monitor_config, drive_count,
                   alert_count, is_monitoring, monitor_thread, stop_event, waiter,
                   collected, predictor, quantum>>

\* Lines 413-416: alert->is_acknowledged = FALSE and the message, through
\* the pointer taken at line 405.
ThreadWriteTail(t) ==
    /\ threads[t].pc \in {"write_critical", "write_warning"}
    /\ alerts' = [alerts EXCEPT
                    ![threads[t].k].is_acknowledged = FALSE,
                    ![threads[t].k].alert_message =
                        IF threads[t].pc = "write_critical"
                        THEN "Critical threshold exceeded"
                        ELSE "Warning threshold exceeded"]
    /\ SetThread(t, IF threads[t].pc = "write_critical" THEN "alert_critical"
                    ELSE "alert_warning",
                 threads[t].i, threads[t].m, threads[t].k)
    /\ UNCHANGED <<g_monitor_initialized, g_monitor_config, drives, drive_count,
                   alert_count, is_monitoring, monitor_thread, stop_event, waiter,
                   collected, predictor, quantum>>

\* The poll loop with CreateAlert followed field by field, on drives whose
\* samples are critical.
MonitorThreadWriting(t) ==
    \/ \E due \in Due(MaxPoints) : ThreadWhile(t, due)
    \/ ThreadFor(t)
    \/ ThreadUpdate(t, CriticalSamples, FALSE)
    \/ ThreadCount(t)
    \/ ThreadCheckSlot(t)
    \/ ThreadWriteTail(t)
    \/ ThreadAlert(t)
    \/ ThreadWait(t)

----------------------------------------------------------------------------
(* A whole per-device update, UpdateDriveMetrics run from its first to its *)
(* last statement with nothing in between.                                 *)

RECURSIVE UpdateAllMetrics(_, _, _)
\* Lines 340-354 from metric m on, with new_metrics = values.
UpdateAllMetrics(data, values, m) ==
    IF m = MONITOR_METRIC_MAX THEN data
    ELSE UpdateAllMetrics(UpdateMetric(data, m, values[m]), values, NextMetric(m))

RECURSIVE CountAllAlerts(_, _)
\* CheckForAlerts from metric m on, as far as the record goes: error_count
\* and warning_count (they are incremented whether or not CreateAlert
\* stores the alert).
CountAllAlerts(data, m) ==
    IF m = MONITOR_METRIC_MAX THEN data
    ELSE CountAllAlerts(
           IF IsMetricCritical(m, data.current_metrics[m])
           THEN [data EXCEPT !.error_count = @ + 1]
           ELSE IF IsMetricWarning(m, data.current_metrics[m])
           THEN [data EXCEPT !.warning_count = @ + 1]
           ELSE data,
           NextMetric(m))

\* BOOL UpdateDriveMetrics(drive_path, data), as far as *data goes.
UpdateDriveMetrics(data, values) ==
    CountAllAlerts(
        [UpdateAllMetrics(data, values, FirstMetric) EXCEPT !.data_points = @ + 1],
        FirstMetric)

RECURSIVE WholeUpdates(_, _)
\* The records that up to n whole updates make of the records of S.
WholeUpdates(S, n) ==
    IF n = 0 THEN S
    ELSE S \cup WholeUpdates(
                   {UpdateDriveMetrics(data, values) :
                      data \in S, values \in [Metrics -> Samples]},
                   n - 1)

\* A record without its is_monitoring flag, which the start and stop calls
\* set: the statistics and counters.
Statistics(data) == [data EXCEPT !.is_monitoring = FALSE]

----------------------------------------------------------------------------
(* USB health prediction, src/src/usb_health_predictor.c.  A sample        *)
(* (usb_health_metrics_t) is followed in the fields the heuristic score    *)
(* reads; speeds are in MB/s.  Scores are exact fractions <<n, d>>,        *)
(* probabilities are in hundredths.                                        *)

HEALTH_CRITICAL_THRESHOLD == 80
HEALTH_WARNING_THRESHOLD == 60

\* The values PredictWithNeuralNetwork can return, in hundredths: its last
\* step is 1 / (1 + expf(-output)), which lies in 0.0 .. 1.0.  The values
\* stand on both sides of 0.3, 0.6 and 0.8.
NetworkOutputs == <<0, 30, 31, 59, 60, 79, 80, 100>>

\* The weights InitNeuralNetwork can leave in the network (lines 221-226:
\* every weight and bias is drawn with rand()), by name.
Networks == 1..Len(NetworkOutputs)

\* float PredictWithNeuralNetwork(nn, metrics): a function of the weights
\* and of the fields of the sample, and of nothing else.  With every weight
\* and bias zero the hidden units are 0.5 and the output is
\* 1 / (1 + expf(0)) = 0.5.
PredictWithNeuralNetwork(nn, metrics) ==
    IF nn = ZeroNetwork THEN 50
    ELSE NetworkOutputs[
           ((nn + metrics.error_count + metrics.retry_count + metrics.bad_sectors
                + metrics.write_speed_avg + metrics.read_speed_avg
                + metrics.hours_used) % Len(NetworkOutputs)) + 1]

\* float CalculateHealthScore(usb_health_metrics_t* metrics), lines
\* 149-192.  The score is kept in units of 1 / (10 * total_writes), or of
\* 1 / 10 when total_writes is 0: unit is 0.1 in these units.
CalculateHealthScore(metrics) ==
    LET unit == IF metrics.total_writes > 0 THEN metrics.total_writes ELSE 1
        errors == IF metrics.total_writes > 0 THEN 3 * metrics.error_count ELSE 0
        retries == IF metrics.total_writes > 0 THEN 2 * metrics.retry_count ELSE 0
        bad == IF metrics.bad_sectors > 0 THEN 4 * unit ELSE 0
        slow == IF /\ metrics.write_speed_avg > 0 /\ metrics.read_speed_avg > 0
                   /\ (metrics.write_speed_avg + metrics.read_speed_avg) * 2 < 40
                THEN 2 * unit ELSE 0
        used == IF metrics.hours_used > 10000 THEN unit ELSE 0
        score == 10 * unit - errors - retries - bad - slow - used
    IN IF score < 0 THEN Frac(0, 10 * unit)
       ELSE IF score > 10 * unit THEN Frac(10 * unit, 10 * unit)
       ELSE Frac(score, 10 * unit)

\* score >= tenths / 10: the comparisons of lines 200-206 with >= in place
\* of >.
Above_or_equal(score, tenths) == score[1] * 10 >= tenths * score[2]

\* score > tenths / 10, for a score <<n, d>>.
Above(score, tenths) == score[1] * 10 > tenths * score[2]

\* uint32_t EstimateDaysRemaining(usb_health_metrics_t* metrics), lines
\* 195-211, with base_days = 365 and integer division.
EstimateDaysRemaining(metrics) ==
    LET health_score == CalculateHealthScore(metrics)
        base_days == 365
    IN IF Above(health_score, 8) THEN base_days * 2
       ELSE IF Above(health_score, 6) THEN base_days
       ELSE IF Above(health_score, 4) THEN base_days \div 2
       ELSE IF Above(health_score, 2) THEN base_days \div 4
       ELSE 30

\* BOOL LoadUSBHealthData(drive_path, context): the return value, and the
\* history read into *context (metrics[0 .. metrics_count - 1]).
LoadUSBHealthData_ret(drive_path) ==
    drive_path # NULL /\ health_files[FirstChar(drive_path)].exists

LoadUSBHealthData(drive_path) == health_files[FirstChar(drive_path)].metrics

\* Lines 65-76 without the memmove of lines 71-72: a full history keeps
\* its oldest sample and the new sample overwrites the last one.
AddMetrics_keeping_oldest(history, metrics) ==
    IF Len(history) < HEALTH_DATA_POINTS_MAX
    THEN Append(history, metrics)
    ELSE [history EXCEPT ![HEALTH_DATA_POINTS_MAX] = metrics]

\* Lines 65-76: the history with the new sample.
AddMetrics(history, metrics) ==
    IF Len(history) < HEALTH_DATA_POINTS_MAX
    THEN Append(history, metrics)
    ELSE Append(Tail(history), metrics)

\* What SaveUSBHealthData can come to: the file is written; fopen fails and
\* the file stays as it was; fopen has truncated the file and fwrite fails.
SaveOutcomes == {"written", "not_opened", "truncated"}

\* BOOL RecordUSBHealthMetrics(drive_path, metrics): the return value.
RecordUSBHealthMetrics_ret(drive_path, metrics, saved) ==
    drive_path # NULL /\ saved = "written"

\* BOOL RecordUSBHealthMetrics(const char* drive_path, metrics), lines
\* 46-81, with the outcome saved of SaveUSBHealthData.  The timestamps are
\* left out.
RecordUSBHealthMetrics(drive_path, metrics, saved) ==
    /\ IF drive_path = NULL THEN UNCHANGED health_files
       ELSE LET history == IF LoadUSBHealthData_ret(drive_path)
                           THEN LoadUSBHealthData(drive_path) ELSE <<>>
            IN health_files' =
                 CASE saved = "written" ->
                        [health_files EXCEPT ![FirstChar(drive_path)] =
                           [exists |-> TRUE, metrics |-> AddMetrics(history, metrics)]]
                   [] saved = "truncated" ->
                        [health_files EXCEPT ![FirstChar(drive_path)] = NoFile]
                   [] OTHER -> health_files
    /\ UNCHANGED <<g_health_predictor_initialized, g_health_network, monitor, quantum>>

\* The recommendation texts of lines 101, 112 and 134-143.
RecommendationNoData == "No historical data available. Drive appears healthy."
RecommendationNoMetrics == "No metrics available. Drive appears healthy."
RecommendationCritical ==
    "CRITICAL: Drive failure imminent! Backup data immediately and replace drive."
RecommendationWarning ==
    "WARNING: Drive showing signs of failure. Consider backing up data soon."
RecommendationAging ==
    "Drive is aging but still functional. Monitor for further degradation."
RecommendationHealthy == "Drive is healthy and operating normally."

\* Lines 98-104 and 109-115 with return FALSE: a drive without samples
\* treated as an error.
NoDataPrediction_failing(recommendation) ==
    [ret |-> FALSE,
     failure_probability |-> 0,
     days_remaining |-> 0,
     recommendation |-> recommendation,
     is_critical |-> FALSE,
     is_warning |-> FALSE]

\* Lines 98-104 and 109-115: the prediction for a drive without samples.
NoDataPrediction(recommendation) ==
    [ret |-> TRUE,
     failure_probability |-> 10,
     days_remaining |-> 365,
     recommendation |-> recommendation,
     is_critical |-> FALSE,
     is_warning |-> FALSE]

\* Lines 118-145 with > in place of >= in lines 131-132.
PredictionFrom_strict(recent_metrics) ==
    LET failure_probability ==
            PredictWithNeuralNetwork(g_health_network, recent_metrics)
        is_critical == failure_probability > HEALTH_CRITICAL_THRESHOLD
        is_warning == failure_probability > HEALTH_WARNING_THRESHOLD
    IN [ret |-> TRUE,
        failure_probability |-> failure_probability,
        days_remaining |-> EstimateDaysRemaining(recent_metrics),
        recommendation |-> IF is_critical THEN RecommendationCritical
                           ELSE IF is_warning THEN RecommendationWarning
                           ELSE IF failure_probability > 30 THEN RecommendationAging
                           ELSE RecommendationHealthy,
        is_critical |-> is_critical,
        is_warning |-> is_warning]

\* Lines 118-145: the prediction from the sample recent_metrics.
PredictionFrom(recent_metrics) ==
    LET failure_probability ==
            PredictWithNeuralNetwork(g_health_network, recent_metrics)
        is_critical == failure_probability >= HEALTH_CRITICAL_THRESHOLD
        is_warning == failure_probability >= HEALTH_WARNING_THRESHOLD
    IN [ret |-> TRUE,
        failure_probability |-> failure_probability,
        days_remaining |-> EstimateDaysRemaining(recent_metrics),
        recommendation |-> IF is_critical THEN RecommendationCritical
                           ELSE IF is_warning THEN RecommendationWarning
                           ELSE IF failure_probability > 30 THEN RecommendationAging
                           ELSE RecommendationHealthy,
        is_critical |-> is_critical,
        is_warning |-> is_warning]

\* Lines 96-145: the prediction when LoadUSBHealthData has returned loaded
\* and has read the history (metrics[0 .. metrics_count - 1]).
PredictionOf(loaded, history) ==
    IF ~loaded
    THEN NoDataPrediction(RecommendationNoData)
    ELSE IF Len(history) = 0
    THEN NoDataPrediction(RecommendationNoMetrics)
    ELSE PredictionFrom(history[Len(history)])

\* BOOL PredictUSBHealth(drive_path, prediction): the return value and
\* *prediction.  The call changes no state.
PredictUSBHealth(drive_path) ==
    PredictionOf(LoadUSBHealthData_ret(drive_path), LoadUSBHealthData(drive_path))

HEALTH_ALGO_MAX == 4

\* BOOL TrainHealthModel(health_algorithm_t algorithm), lines 345-351: the
\* call logs one line and returns TRUE.
TrainHealthModel(algorithm) ==
    /\ algorithm \in 0..(HEALTH_ALGO_MAX - 1)
    /\ UNCHANGED <<g_health_predictor_initialized, g_health_network,
                   health_files, monitor, quantum>>

\* BOOL TrainNeuralNetwork(nn, training_data, data_count), lines 279-294:
\* the weights of *nn after the call.  The call checks its arguments and
\* logs the number of training samples; it writes nothing to *nn.
TrainNeuralNetwork(nn, data_count) == nn

\* InitUSBHealthPredictor without the early return of lines 19-20: every
\* call draws new weights.
InitUSBHealthPredictor_redrawing(nn) ==
    /\ g_health_network' = nn
    /\ g_health_predictor_initialized' = TRUE
    /\ UNCHANGED <<health_files, monitor, quantum>>

\* BOOL InitUSBHealthPredictor(void), with the weights nn that
\* InitNeuralNetwork draws.  TrainHealthModel only logs.
InitUSBHealthPredictor(nn) ==
    /\ IF g_health_predictor_initialized
       THEN UNCHANGED <<g_health_predictor_initialized, g_health_network>>
       ELSE /\ g_health_network' = nn
            /\ g_health_predictor_initialized' = TRUE
    /\ UNCHANGED <<health_files, monitor, quantum>>

\* void CleanupUSBHealthPredictor(void)
CleanupUSBHealthPredictor ==
    /\ g_health_predictor_initialized' = FALSE
    /\ g_health_network' = ZeroNetwork
    /\ UNCHANGED <<health_files, monitor, quantum>>

----------------------------------------------------------------------------

\* The calls that launch nothing, with the config arguments of configs.
OtherCall(configs) ==
    \/ \E config \in configs, created \in BOOLEAN : InitRealTimeMonitor(config, created)
    \/ \E drive_path \in Devices : StopDriveMonitoring(drive_path)
    \/ StopAllDrives
    \/ WaitReturns
    \/ CleanupRealTimeMonitor

\* The calls on the alert log.
AlertCall ==
    \/ \E alert_index \in AlertSlots : AcknowledgeAlert(alert_index)
    \/ ClearAllAlerts

\* StartDriveMonitoring from callers that start a drive only when no poll
\* loop is executing, or when the call launches none.
StartAlone ==
    \E drive_path \in Devices \cup {NULL}, created \in BOOLEAN :
        /\ StartDriveMonitoring(drive_path, created)
        /\ AliveThreads = {} \/ UNCHANGED threads

\* StartDriveMonitoring at any moment.
StartAnytime ==
    \E drive_path \in Devices \cup {NULL}, created \in BOOLEAN :
        StartDriveMonitoring(drive_path, created)

Next ==
    \/ OtherCall(ConfigArgs)
    \/ AlertCall
    \/ StartAlone
    \/ \E t \in ThreadIds : MonitorThreadProc(t, Samples)

\* The engine with every call at any moment, except that no poll loop is
\* launched while an earlier one is still executing.
Spec == Init /\ [][Next]_vars

LifecycleNext ==
    \/ OtherCall({NULL})
    \/ StartAlone
    \/ \E t \in ThreadIds : MonitorThreadQuiet(t)

\* The engine's lifecycle alone: as Spec, without the calls on the alert
\* log and on drives whose samples raise no alert.
LifecycleSpec == Init /\ [][LifecycleNext]_vars

\* The scheduler runs every thread that can take a step.
LoopFairness == \A t \in ThreadIds : WF_vars(MonitorThreadQuiet(t))

FairLifecycleSpec == LifecycleSpec /\ LoopFairness

OverlapNext ==
    \/ OtherCall({NULL})
    \/ StartAnytime
    \/ \E t \in ThreadIds : MonitorThreadQuiet(t)

\* The lifecycle with StartDriveMonitoring at any moment, also while an
\* earlier poll loop is still executing.
OverlapSpec == Init /\ [][OverlapNext]_vars

FairOverlapSpec == OverlapSpec /\ LoopFairness

RaceNext ==
    \/ \E created \in BOOLEAN : InitRealTimeMonitor(NULL, created)
    \/ \E drive_path \in Devices : StopDriveMonitoring(drive_path)
    \/ StartAlone
    \/ \E drive_path \in Devices : StartDriveMonitoring_checked(drive_path)
    \/ \E created \in BOOLEAN : StartDriveMonitoring_resumed(created)
    \/ \E t \in ThreadIds : MonitorThreadQuiet(t)

\* The samples a caller hands to RecordUSBHealthMetrics: no writes yet or
\* ten; no errors, some, or more errors than writes; retries; bad sectors;
\* speeds (write, read) not measured, measured in part, slow and normal;
\* hours of use on both sides of 10000.
HealthSamples ==
    {[total_writes |-> w, error_count |-> e, retry_count |-> r, bad_sectors |-> b,
      write_speed_avg |-> v[1], read_speed_avg |-> v[2], hours_used |-> h] :
        w \in {0, 10}, e \in {0, 5, 20}, r \in {0, 5}, b \in {0, 5},
        v \in {<<0, 0>>, <<0, 20>>, <<5, 5>>, <<25, 20>>}, h \in {500, 10001}}

\* A clean sample with normal speeds, and the same with bad sectors.
CleanSample ==
    [total_writes |-> 10, error_count |-> 0, retry_count |-> 0, bad_sectors |-> 0,
     write_speed_avg |-> 25, read_speed_avg |-> 20, hours_used |-> 500]

\* The sample of a drive in perfect condition after 1000 writes.
HealthySample == [CleanSample EXCEPT !.total_writes = 1000]

RecordedSamples == {CleanSample, [CleanSample EXCEPT !.bad_sectors = 5]}

\* The health file the program finds for a drive when it starts: none, one
\* with an empty history, or one with a sample recorded by an earlier run.
StoredFiles ==
    {NoFile, [exists |-> TRUE, metrics |-> <<>>]}
      \cup {[exists |-> TRUE, metrics |-> <<m>>] : m \in HealthSamples \cup {HealthySample}}

HealthInit ==
    /\ MonitorInit
    /\ PredictorInit
    /\ QuantumInit
    /\ \E file \in StoredFiles :
          health_files = [c \in FileKeys |-> IF c = "E" THEN file ELSE NoFile]

HealthNext ==
    \/ \E nn \in Networks : InitUSBHealthPredictor(nn)
    \/ CleanupUSBHealthPredictor
    \/ \E drive_path \in Devices, metrics \in RecordedSamples, saved \in SaveOutcomes :
          RecordUSBHealthMetrics(drive_path, metrics, saved)

\* The health predictor: the calls of usb_health_predictor.c in any order,
\* on a machine that may hold a health file of an earlier run.
HealthSpec == HealthInit /\ [][HealthNext]_vars

TrainingNext ==
    \/ HealthNext
    \/ \E algorithm \in 0..(HEALTH_ALGO_MAX - 1) : TrainHealthModel(algorithm)

\* The health predictor with the training call, on a machine that holds no
\* health file.
TrainingSpec == Init /\ [][TrainingNext]_vars

DrivePaths == {"E:"} \cup PhysicalDrives

PathNext ==
    \/ \E nn \in Networks : InitUSBHealthPredictor(nn)
    \/ CleanupUSBHealthPredictor
    \/ \E drive_path \in DrivePaths, metrics \in RecordedSamples, saved \in SaveOutcomes :
          RecordUSBHealthMetrics(drive_path, metrics, saved)

\* The health predictor with drives named by letter and by device path, on
\* a machine that holds no health file.
PathSpec == Init /\ [][PathNext]_vars

\* One caller of quantum_encryption.c: it starts and ends a session with no
\* buffer in use, and decrypts what it has encrypted.
QuantumSpec == Init /\ [][QuantumNext]_vars

ScoreNext ==
    \E drive_path \in Devices, metrics \in RecordedSamples, saved \in SaveOutcomes :
        RecordUSBHealthMetrics(drive_path, metrics, saved)

\* Samples being recorded and scored, with the predictor's network as the
\* program starts with it.
ScoreSpec == HealthInit /\ [][ScoreNext]_vars

AlertLogNext ==
    \/ \E created \in BOOLEAN : InitRealTimeMonitor(NULL, created)
    \/ StopAllDrives
    \/ WaitReturns
    \/ StartAnytime
    \/ AlertCall
    \/ \E t \in ThreadIds : MonitorThreadWriting(t)

\* The alert log under every caller: drives started and the engine stopped
\* at any moment, AcknowledgeAlert and ClearAllAlerts at any moment, and the
\* writes of CreateAlert one after the other.
AlertLogSpec == Init /\ [][AlertLogNext]_vars

\* StartDriveMonitoring and StopDriveMonitoring of single drives from two
\* contexts: a start of one context runs while a start of the other is
\* between its checks and its registration.
RaceSpec == Init /\ [][RaceNext]_vars

TickNext ==
    \/ \E config \in {NULL, "usage"}, created \in BOOLEAN :
          InitRealTimeMonitor(config, created)
    \/ \E created \in BOOLEAN : StartDriveMonitoring("E:", created)
    \/ \E t \in ThreadIds : MonitorThreadSensor(t)

\* One drive under the default configuration or that of the documented
\* usage, followed over MaxTicks ticks of its sensor, with no other call
\* meanwhile.
TickSpec == Init /\ [][TickNext]_vars

LogNext ==
    \/ TickNext
    \/ AlertCall

\* As TickSpec, with the calls on the alert log at any moment.
LogSpec == Init /\ [][LogNext]_vars

SamplingNext ==
    \/ \E config \in {NULL, "speed_only"}, created \in BOOLEAN :
          InitRealTimeMonitor(config, created)
    \/ StartAlone
    \/ \E t \in ThreadIds : MonitorThreadFailing(t)

\* Drives being started under the default configuration or a caller's,
\* and the poll loop with collectors that may fail.
SamplingSpec == Init /\ [][SamplingNext]_vars

FairSamplingSpec ==
    SamplingSpec /\ \A t \in ThreadIds : WF_vars(MonitorThreadFailing(t))

----------------------------------------------------------------------------
(* Properties.                                                             *)

Registered == {i \in DriveSlots : i < drive_count}
NoDriveActive == \A i \in Registered : ~drives[i].is_monitoring

\* A step that creates a thread.
Launches == \E t \in ThreadIds : ~Alive(t) /\ threads'[t].pc # "none"

\* C1: the registry holds at most one record per device identifier: no two
\* slots below drive_count carry the same drive_path.
C1_OneRecordPerDevice ==
    \A i, j \in Registered : i # j => drives[i].drive_path # drives[j].drive_path

\* C2: when StopDriveMonitoring(d) returns TRUE, the registry it leaves has
\* no monitored record of d: IsDriveBeingMonitored(d) is FALSE and the poll
\* loop, which visits the records marked as monitored, visits none of d.
C2_StoppedDriveIsInactive ==
    \A d \in Devices :
        StopDriveMonitoring_ret(d) =>
            \A i \in SlotsOf(d) : ~StopDrives(d)[i].is_monitoring

\* C3: a poll loop keeps running until the next stop: as long as the engine
\* is marked running (no StopDriveMonitoring(NULL) since the launch) the
\* loop has not returned, also when it was launched after an earlier stop.
C3_RelaunchedLoopKeepsRunning == is_monitoring => AliveThreads # {}

\* C4: a step that stops or starts the engine (g_monitor_initialized or
\* is_monitoring changes) keeps every registered record's statistics and
\* counters, and the alert log.
C4_CycleKeepsRegistryAndAlerts ==
    [][(g_monitor_initialized' # g_monitor_initialized \/ is_monitoring' # is_monitoring)
         => /\ drive_count' >= drive_count
            /\ \A i \in Registered : Statistics(drives'[i]) = Statistics(drives[i])
            /\ alert_count' = alert_count
            /\ alerts' = alerts]_vars

\* C5 as stated: no step but that of the engine's Start operation,
\* InitRealTimeMonitor, launches a poll loop; StartDriveMonitoring never does.
C5_OnlyInitLaunches ==
    [][Launches => (~g_monitor_initialized /\ g_monitor_initialized')]_vars

\* C5 as amended: a poll loop is launched by, and only by, a
\* StartDriveMonitoring that registers a new record while the engine is not
\* marked running (and CreateThread succeeds); InitRealTimeMonitor and the
\* calls that register nothing launch none.
C5_LaunchedByRegisteringStart ==
    [][/\ Launches =>
            /\ g_monitor_initialized /\ g_monitor_initialized'
            /\ drive_count' = drive_count + 1
            /\ ~is_monitoring /\ is_monitoring'
       /\ (g_monitor_initialized /\ drive_count' = drive_count + 1 /\ ~is_monitoring)
            => (Launches \/ ~is_monitoring')]_vars

\* A loop was launched by the registration of the first drive.
C5_Witness ==
    /\ is_monitoring
    /\ drive_count = 1
    /\ AliveThreads # {}

\* C6: the step that stops the engine leaves it not marked running and
\* with no registered drive monitored, and from then on every poll loop that
\* is still executing returns, unless a start call marks the engine as
\* running again first.
C6_StopTerminatesLoop ==
    /\ [][(is_monitoring /\ ~is_monitoring') => NoDriveActive']_vars
    /\ \A t \in ThreadIds :
          (~is_monitoring /\ Alive(t)) ~> (~Alive(t) \/ is_monitoring)

\* The stop has been signalled and the loop, which had sampled a drive, has
\* returned: the engine is Stopped.
C6_Witness ==
    /\ g_monitor_initialized
    /\ stop_event = "set"
    /\ ~is_monitoring
    /\ NoDriveActive
    /\ AliveThreads = {}
    /\ \E i \in Registered : drives[i].data_points > 0

\* C7: at most one poll loop is executing.
C7_SinglePollLoop == Cardinality(AliveThreads) <= 1

\* C8: once the stop has been signalled (and the engine is not marked
\* running again) no poll loop begins the update of a further device.
C8_NoDeviceBegunAfterStop ==
    [][(stop_event = "set" /\ ~is_monitoring)
         => \A t \in ThreadIds :
               ~(threads[t].pc = "for" /\ threads'[t].pc = "update")]_vars

\* C9: the record GetDriveHealthStatus copies out is a record as whole
\* per-device updates leave it: the new record of the drive, or what whole
\* updates make of it.
C9_SnapshotIsWholeUpdate ==
    \A d \in Devices :
        GetDriveHealthStatus_ret(d) =>
            Statistics(GetDriveHealthStatus(d))
                \in WholeUpdates({Statistics(NewDrive(d))}, MaxPoints + 1)

\* C10: each of the first alert_count entries of the log was written by
\* CreateAlert; none is a zeroed entry.
C10_CountedAlertsAreWritten ==
    \A k \in AlertSlots : k < alert_count => GetMonitoringAlerts.alerts[k] # ZeroAlert

\* C11: drive_count never exceeds MONITOR_MAX_DRIVES, so every index below
\* drive_count is a slot of the registry array.
C11_CountWithinCapacity ==
    /\ drive_count <= MONITOR_MAX_DRIVES
    /\ \A i \in 0..(drive_count - 1) : i \in DriveSlots

\* C12: with the registry full, StartDriveMonitoring of a drive that has no
\* record returns FALSE and changes nothing.
C12_FullRegistryRejects ==
    /\ [](\A d \in Devices, created \in BOOLEAN :
            (g_monitor_initialized /\ drive_count = MONITOR_MAX_DRIVES
               /\ SlotsOf(d) = {})
              => ~StartDriveMonitoring_ret(d, created))
    /\ [][\A d \in Devices, created \in BOOLEAN :
            (g_monitor_initialized /\ drive_count = MONITOR_MAX_DRIVES
               /\ SlotsOf(d) = {} /\ StartDriveMonitoring(d, created))
              => UNCHANGED vars]_vars

\* The registry is full and a drive has no record.
C12_Witness ==
    /\ g_monitor_initialized
    /\ drive_count = MONITOR_MAX_DRIVES
    /\ \E d \in Devices : SlotsOf(d) = {} /\ ~StartDriveMonitoring_ret(d, TRUE)

\* The thread is inside CreateAlert, past the write of the entry: lines
\* 418-424 (the count and the notification) are still to come.
InCreateAlert(t) == threads[t].pc \in {"alert_critical", "alert_warning"}

\* C13: alert_count never exceeds the capacity of the log, and the step of
\* CheckForAlerts that calls CreateAlert with the log full leaves
\* alert_count and every entry of the log as they were and does not reach
\* the notification.
C13_FullLogRejects ==
    /\ [](alert_count <= AlertCapacity)
    /\ [][\A t \in ThreadIds :
            (alert_count = AlertCapacity /\ ThreadCheck(t))
              => /\ alert_count' = alert_count
                 /\ alerts' = alerts
                 /\ ~InCreateAlert(t)']_vars

\* Under the default configuration the log is full with the alerts of the
\* first two ticks (48.0, a warning, and 54.0), and the alert of the third
\* tick (1050.0) was rejected: the record counts it, the log does not hold
\* it.
C13_Witness ==
    /\ g_monitor_config = DefaultConfig
    /\ alert_count = AlertCapacity
    /\ [k \in 1..Len(collected[0]) |-> collected[0][k].value] = <<480, 540, 10500>>
    /\ drives[0].warning_count = 1 /\ drives[0].error_count = 2
    /\ alerts[0].current_value = 480 /\ ~alerts[0].is_critical
    /\ alerts[1].current_value = 540 /\ alerts[1].is_critical

\* The values the collector of metric m has delivered for slot i, tick by
\* tick.
SamplesOf(i, m) ==
    LET own == SelectSeq(collected[i], LAMBDA new : new.metric = m /\ new.result = "sampled")
    IN [k \in 1..Len(own) |-> own[k].value]

\* Slot i is registered and stands between two ticks that sampled metric m
\* each time: n samples of m have been delivered and n updates counted.
Sampled(i, m, n) ==
    /\ i \in Registered
    /\ g_monitor_config.enable[m]
    /\ drives[i].data_points = n
    /\ Len(SamplesOf(i, m)) = n
    /\ Len(SelectSeq(collected[i], LAMBDA new : new.metric = m)) = n

RECURSIVE SeqSum(_)
SeqSum(seq) == IF seq = <<>> THEN 0 ELSE Head(seq) + SeqSum(Tail(seq))

SeqMax(seq) == CHOOSE x \in {seq[k] : k \in 1..Len(seq)} : \A k \in 1..Len(seq) : seq[k] <= x
SeqMin(seq) == CHOOSE x \in {seq[k] : k \in 1..Len(seq)} : \A k \in 1..Len(seq) : x <= seq[k]

\* C14: for every device and every enabled metric, after n >= 1 ticks with
\* the samples v1..vn the running mean is (v1 + ... + vn) / n.
C14_MeanOfSamples ==
    \A i \in DriveSlots, m \in Metrics, n \in 1..(MaxTicks + 1) :
        Sampled(i, m, n) =>
            drives[i].average_metrics[m] = Frac(SeqSum(SamplesOf(i, m)), n)

\* Three ticks with the samples 48.0, 54.0 and 47.9: the mean is 149.9 / 3,
\* none of the samples and not the mean of the last two.
C14_Witness ==
    /\ Sampled(0, 0, 3)
    /\ SamplesOf(0, 0) = <<480, 540, 479>>
    /\ drives[0].average_metrics[0] = <<1499, 3>>

C16_SeverityDecidesAlert ==
    [][\A t \in ThreadIds :
         ThreadCheck(t) =>
           LET i == threads[t].i
               kind == threads[t].m
               value == drives[i].current_metrics[kind]
               base == CASE kind = 0 -> 600 [] kind = 3 -> 5 [] kind = 8 -> 800
               Critical == value * 10 >= base * g_monitor_config.critical_threshold
               Warning == ~Critical /\ value * 10 >= base * g_monitor_config.warning_threshold
               written == alerts'[alert_count]
           IN /\ (~Critical /\ ~Warning) =>
                   alerts' = alerts /\ drives' = drives /\ ~InCreateAlert(t)'
              /\ (Critical \/ Warning) =>
                   IF alert_count < AlertCapacity
                   THEN /\ written.metric = kind
                        /\ written.current_value = value
                        /\ written.threshold_value = base
                        /\ written.is_critical = Critical
                        /\ threads'[t].pc = IF Critical THEN "alert_critical"
                                            ELSE "alert_warning"
                   ELSE /\ alerts' = alerts
                        /\ drives'[i].error_count =
                             drives[i].error_count + IF Critical THEN 1 ELSE 0
                        /\ drives'[i].warning_count =
                             drives[i].warning_count + IF Warning THEN 1 ELSE 0]_vars

\* Under the default configuration three ticks have been evaluated: 47.9,
\* just below 60 * 0.8, raised nothing, 48.0 a warning and 54.0, which is
\* 60 * 0.9, a critical alert.
C16_Witness ==
    /\ g_monitor_config = DefaultConfig
    /\ Sampled(0, 0, 3)
    /\ SamplesOf(0, 0) = <<479, 480, 540>>
    /\ alert_count = 2
    /\ alerts[0].current_value = 480 /\ ~alerts[0].is_critical
    /\ alerts[1].current_value = 540 /\ alerts[1].is_critical
    /\ drives[0].warning_count = 1 /\ drives[0].error_count = 1

\* The statistics of metric m in a record.
MetricOf(data, m) ==
    <<data.current_metrics[m], data.average_metrics[m], data.max_metrics[m],
      data.min_metrics[m]>>

\* C17: for a metric that is disabled in the configuration, no step changes
\* the current, mean, max or min value of a registered record, and the
\* step of CheckForAlerts on that metric raises no alert.
C17_DisabledMetricUntouched ==
    [][\A i \in Registered, m \in Metrics :
         ~g_monitor_config.enable[m] =>
            /\ MetricOf(drives'[i], m) = MetricOf(drives[i], m)
            /\ \A t \in ThreadIds :
                  (ThreadCheck(t) /\ threads[t].i = i /\ threads[t].m = m)
                    => alerts' = alerts /\ ~InCreateAlert(t)']_vars

\* No poll loop is inside UpdateDriveMetrics: every tick begun on a record
\* has been carried through CheckForAlerts.
BetweenUpdates ==
    \A t \in ThreadIds : threads[t].pc \in {"none", "while", "for", "wait"}

\* C18: alerts are not deduplicated.  After n ticks on a drive, the log
\* holds, in tick order and as long as it has room, exactly one alert for
\* every tick whose sample was at or above base * warning multiplier or
\* base * critical multiplier: critical when at or above base * critical
\* multiplier, a warning otherwise, with the sample as its value.
C18_OneAlertPerBreach ==
    \A i \in DriveSlots, m \in Metrics, n \in 1..(MaxTicks + 1) :
        (Sampled(i, m, n) /\ BetweenUpdates) =>
            LET base == CASE m = 0 -> 600 [] m = 3 -> 5 [] m = 8 -> 800
                Critical(v) == v * 10 >= base * g_monitor_config.critical_threshold
                Warning(v) == v * 10 >= base * g_monitor_config.warning_threshold
                Breach(v) == Critical(v) \/ Warning(v)
                breaches == SelectSeq(SamplesOf(i, m), Breach)
            IN /\ alert_count = IF Len(breaches) < AlertCapacity
                                THEN Len(breaches) ELSE AlertCapacity
               /\ \A k \in 1..alert_count :
                     /\ alerts[k - 1].drive_path = drives[i].drive_path
                     /\ alerts[k - 1].metric = m
                     /\ alerts[k - 1].current_value = breaches[k]
                     /\ alerts[k - 1].is_critical = Critical(breaches[k])
               /\ drives[i].error_count + drives[i].warning_count = Len(breaches)

\* Two consecutive ticks with the same critical sample, 54.0, have left two
\* critical alerts in the log.
C18_Witness ==
    /\ g_monitor_config = DefaultConfig
    /\ Sampled(0, 0, 2) /\ BetweenUpdates
    /\ SamplesOf(0, 0) = <<540, 540>>
    /\ alert_count = 2
    /\ alerts[0].is_critical /\ alerts[1].is_critical
    /\ alerts[0].current_value = 540 /\ alerts[1].current_value = 540

\* What lines 305-337 last left in new_metrics[m] for slot i.
LastCollected(i, m) ==
    LET own == SelectSeq(collected[i], LAMBDA new : new.metric = m)
    IN IF own = <<>> THEN [metric |-> m, result |-> "none", value |-> 0]
       ELSE own[Len(own)]

FailedAt(t, i) ==
    /\ threads[t].pc = "count"
    /\ threads[t].i = i
    /\ LastCollected(i, FirstMetric).result = "failed"

WithHistory ==
    {d \in Devices : LoadUSBHealthData_ret(d) /\ Len(LoadUSBHealthData(d)) > 0}

\* The most recent sample of a drive with a history.
LatestSample(d) == LoadUSBHealthData(d)[Len(LoadUSBHealthData(d))]

\* C21: for the latest sample m of every drive, when m.total_writes > 0,
\* CalculateHealthScore(m) is 1 - 0.3 * errors / writes - 0.2 * retries /
\* writes - 0.4 if there are bad sectors - 0.2 if the mean of the two
\* average speeds is below 10 MB/s (zero speeds included) - 0.1 if
\* hours_used > 10000, clamped to 0..1; and bad sectors on an otherwise
\* clean sample lower the score by exactly 0.4.
C21_ScoreFormula ==
    \A d \in WithHistory :
        LET m == LatestSample(d)
            w == m.total_writes
            tenths == 10 * w - 3 * m.error_count - 2 * m.retry_count
                        - (IF m.bad_sectors > 0 THEN 4 * w ELSE 0)
                        - (IF m.write_speed_avg + m.read_speed_avg < 2 * 10
                           THEN 2 * w ELSE 0)
                        - (IF m.hours_used > 10000 THEN w ELSE 0)
            clamped == IF tenths < 0 THEN 0 ELSE IF tenths > 10 * w THEN 10 * w ELSE tenths
        IN w > 0 =>
             /\ CalculateHealthScore(m) = Frac(clamped, 10 * w)
             /\ (m = CleanSample) =>
                   CalculateHealthScore([m EXCEPT !.bad_sectors = 5]) = Frac(6, 10)

\* C22: the days_remaining of every prediction made from a history is 730
\* when the heuristic score s of the latest sample is above 0.8, 365 when s
\* is above 0.6, 182 when above 0.4, 91 when above 0.2 and 30 otherwise,
\* the comparisons being strict; and a sample with a score at least as high
\* never gets fewer days.
C22_DaysFromScore ==
    \A d \in WithHistory :
        LET s == CalculateHealthScore(LatestSample(d))
            days == IF s[1] * 10 > 8 * s[2] THEN 730
                    ELSE IF s[1] * 10 > 6 * s[2] THEN 365
                    ELSE IF s[1] * 10 > 4 * s[2] THEN 182
                    ELSE IF s[1] * 10 > 2 * s[2] THEN 91
                    ELSE 30
        IN /\ PredictUSBHealth(d).days_remaining = days
           /\ EstimateDaysRemaining(LatestSample(d)) = days
           /\ \A m \in HealthSamples :
                 LET s2 == CalculateHealthScore(m)
                 IN s[1] * s2[2] <= s2[1] * s[2]
                      => days <= EstimateDaysRemaining(m)

\* The latest recorded sample has bad sectors and nothing else: its score is
\* exactly 0.6 and the prediction gives 182 days.
C22_Witness ==
    /\ "F:" \in WithHistory
    /\ CalculateHealthScore(LatestSample("F:")) = <<3, 5>>
    /\ PredictUSBHealth("F:").days_remaining = 182

\* The recommendation of prediction pr is the one of the band of its
\* failure probability: critical from 0.8, warning from 0.6 to below 0.8,
\* aging above 0.3 and below 0.6, healthy up to 0.3.
InBand(pr) ==
    LET p == pr.failure_probability
    IN /\ (pr.recommendation = RecommendationCritical) <=> (p >= 80)
       /\ (pr.recommendation = RecommendationWarning) <=> (60 <= p /\ p < 80)
       /\ (pr.recommendation = RecommendationAging) <=> (30 < p /\ p < 60)
       /\ (pr.recommendation = RecommendationHealthy) <=> (p <= 30)

\* is_critical holds exactly from 0.8 and is_warning exactly from 0.6.
Flagged(pr) ==
    /\ pr.is_critical <=> (pr.failure_probability >= 80)
    /\ pr.is_warning <=> (pr.failure_probability >= 60)

\* C23 as stated: every prediction is flagged by its failure probability,
\* and its recommendation is the critical, warning, aging or healthy text
\* of the band of its failure probability.
C23_EveryPredictionInBand ==
    \A d \in Devices : Flagged(PredictUSBHealth(d)) /\ InBand(PredictUSBHealth(d))

\* C23 as amended: every prediction is flagged by its failure probability;
\* the recommendation of a prediction made from a stored sample is the text
\* of the band of its failure probability; a prediction for a drive
\* without samples has probability 0.1 and one of the two texts that say
\* that no data is available.
C23_PredictionFromSampleInBand ==
    \A d \in Devices :
        LET pr == PredictUSBHealth(d)
        IN /\ Flagged(pr)
           /\ d \in WithHistory => InBand(pr)
           /\ d \notin WithHistory =>
                 /\ pr.failure_probability = 10
                 /\ pr.recommendation \in {RecommendationNoData, RecommendationNoMetrics}

\* One drive is predicted at exactly 0.6, with the warning text and the
\* warning flag alone, another at exactly 0.8, critical.
C23_Witness ==
    \E d1, d2 \in WithHistory :
        /\ PredictUSBHealth(d1).failure_probability = 60
        /\ PredictUSBHealth(d1).recommendation = RecommendationWarning
        /\ PredictUSBHealth(d1).is_warning /\ ~PredictUSBHealth(d1).is_critical
        /\ PredictUSBHealth(d2).failure_probability = 80
        /\ PredictUSBHealth(d2).recommendation = RecommendationCritical
        /\ PredictUSBHealth(d2).is_critical /\ PredictUSBHealth(d2).is_warning

----------------------------------------------------------------------------
\* The drive has no history: no health file that can be read, or a file
\* with metrics_count = 0.
NoHistory(d) == ~LoadUSBHealthData_ret(d) \/ Len(LoadUSBHealthData(d)) = 0

\* C24: PredictUSBHealth for a drive with no history (no stored data, or a
\* stored history of zero samples) succeeds and returns failure probability
\* 0.1, 365 days remaining, is_critical FALSE and is_warning FALSE.
C24_NoHistoryDefault ==
    \A d \in Devices :
        NoHistory(d) =>
            /\ PredictUSBHealth(d).ret
            /\ PredictUSBHealth(d).failure_probability = 10
            /\ PredictUSBHealth(d).days_remaining = 365
            /\ ~PredictUSBHealth(d).is_critical
            /\ ~PredictUSBHealth(d).is_warning

\* The predictor has been initialised with weights that give 1.0 for the
\* clean sample; E: has a file with an empty history, F: has no file after
\* a save that failed, and both get the default.
C24_Witness ==
    /\ g_health_predictor_initialized
    /\ PredictWithNeuralNetwork(g_health_network, CleanSample) = 100
    /\ health_files["E"].exists /\ health_files["E"].metrics = <<>>
    /\ ~health_files["F"].exists
    /\ PredictUSBHealth("E:").recommendation = RecommendationNoMetrics
    /\ PredictUSBHealth("F:").recommendation = RecommendationNoData
    /\ PredictUSBHealth("E:").failure_probability = 10

----------------------------------------------------------------------------
\* The history RecordUSBHealthMetrics starts from for drive d: the one of
\* the health file, or an empty one when no file can be read.
HistoryOf(d) == IF LoadUSBHealthData_ret(d) THEN LoadUSBHealthData(d) ELSE <<>>

\* new is old with sample m recorded, as a bounded first-in first-out
\* queue: appended below the capacity; at the capacity the oldest sample is
\* gone, the others have moved up by one in their order, and m is last.
FifoStep(old, m, new) ==
    /\ Len(new) <= HEALTH_DATA_POINTS_MAX
    /\ new[Len(new)] = m
    /\ IF Len(old) < HEALTH_DATA_POINTS_MAX
       THEN /\ Len(new) = Len(old) + 1
            /\ \A k \in 1..Len(old) : new[k] = old[k]
       ELSE /\ Len(new) = HEALTH_DATA_POINTS_MAX
            /\ \A k \in 1..(HEALTH_DATA_POINTS_MAX - 1) : new[k] = old[k + 1]

\* C25: RecordUSBHealthMetrics keeps a drive's history as a bounded FIFO.
\* After a sample is recorded (the call returns TRUE) metrics_count does
\* not exceed HEALTH_DATA_POINTS_MAX: the sample is appended while the
\* history is below the capacity, and at the capacity the oldest sample is
\* dropped, the others keep their order and the new sample becomes the
\* last; the histories of other drives are as before; and PredictUSBHealth
\* then answers from the sample just recorded.
C25_BoundedFifo ==
    [][\A d \in Devices, m \in RecordedSamples, saved \in SaveOutcomes :
          (RecordUSBHealthMetrics_ret(d, m, saved)
             /\ RecordUSBHealthMetrics(d, m, saved)) =>
              /\ LoadUSBHealthData_ret(d)'
              /\ FifoStep(HistoryOf(d), m, LoadUSBHealthData(d)')
              /\ \A c \in FileKeys \ {FirstChar(d)} :
                     health_files'[c] = health_files[c]
              /\ PredictionOf(LoadUSBHealthData_ret(d)', LoadUSBHealthData(d)')
                   = PredictionFrom(m)]_vars

\* The history of E: is at its capacity with two different samples, the
\* sample with bad sectors last, and the prediction is made from it.
C25_Witness ==
    /\ g_health_predictor_initialized
    /\ Len(LoadUSBHealthData("E:")) = HEALTH_DATA_POINTS_MAX
    /\ LoadUSBHealthData("E:")[1] = CleanSample
    /\ LatestSample("E:") = [CleanSample EXCEPT !.bad_sectors = 5]
    /\ PredictUSBHealth("E:").days_remaining = 182

----------------------------------------------------------------------------
\* C26: a start on an engine that is already running reports failure
\* (AlreadyRunning): on an initialised engine InitRealTimeMonitor, with
\* any configuration, does not return TRUE.  (The other half of the
\* claim, that the call changes nothing, is the first branch of
\* InitRealTimeMonitor: such a call is a step that changes no variable.)
C26_SecondStartFails ==
    g_monitor_initialized =>
        \A config \in {NULL, "usage"}, created \in BOOLEAN :
            ~InitRealTimeMonitor_ret(config, created)

----------------------------------------------------------------------------
\* The wait of StopDriveMonitoring(NULL) (line 165) returns, and with it
\* the call.
StopReturns == WaitReturns /\ waiter.kind = "stop"

\* C27: the stop of the engine waits a bounded time for the poll loop and
\* reports success only when the loop has exited: when the wait returns
\* and the loop whose handle it waited on is still executing (the 5 s have
\* passed), the call does not return TRUE.
C27_StopReportsTimeout ==
    [][StopReturns => (StopDriveMonitoring_ret(NULL) => ~Alive(waiter.handle))]_vars

----------------------------------------------------------------------------
\* Thread t finishes the tick of a drive: CheckForAlerts has handled the
\* last metric and the for loop of MonitorThreadProc goes on (line 274).
TickEnds(t) ==
    /\ threads[t].pc \in {"check", "alert_critical", "alert_warning"}
    /\ threads'[t].pc = "for"

\* An enabled metric of record data is at or above its critical threshold.
HasCriticalMetric(data) ==
    \E m \in Metrics :
        g_monitor_config.enable[m] /\ IsMetricCritical(m, data.current_metrics[m])

\* C28: a tick that processes a drive sets the drive's healthy flag from
\* its threshold evaluation: when the tick ends with an enabled metric of
\* the drive critical, is_healthy is FALSE.
C28_HealthyFollowsTick ==
    [][\A t \in ThreadIds :
          (TickEnds(t) /\ HasCriticalMetric(drives'[threads[t].i]))
             => ~drives'[threads[t].i].is_healthy]_vars

----------------------------------------------------------------------------
\* Drive d has a record and the engine is initialised: StopDriveMonitoring(d)
\* gets as far as its loop of lines 175-181 and finds a record.
StopApplies(d) == g_monitor_initialized /\ SlotsOf(d) # {}

\* C29: StopDriveMonitoring(d) for a registered d marks only d inactive and
\* deallocates nothing, and a second call in a row succeeds and changes
\* nothing.  In every state the call for a registered drive returns TRUE
\* and the registry it leaves has no active record of d, the same
\* statistics in every record, and the records of other drives as they
\* were; a step of the call changes nothing but the registry, and in the
\* state it leaves the same call returns TRUE and leaves the registry as it
\* is.
C29_StopMarksOnlyDrive ==
    /\ [](\A d \in Devices :
            StopApplies(d) =>
              /\ StopDriveMonitoring_ret(d)
              /\ \A i \in SlotsOf(d) : ~StopDrives(d)[i].is_monitoring
              /\ \A i \in DriveSlots :
                    /\ Statistics(StopDrives(d)[i]) = Statistics(drives[i])
                    /\ drives[i].drive_path # d => StopDrives(d)[i] = drives[i])
    /\ [][\A d \in Devices :
            (StopApplies(d) /\ StopDriveMonitoring(d)) =>
              /\ UNCHANGED <<g_monitor_initialized, g_monitor_config, alerts,
                             drive_count, alert_count, is_monitoring,
                             monitor_thread, stop_event, threads, predictor, quantum>>
              /\ StopDriveMonitoring_ret(d)'
              /\ StopDrives(d)' = drives']_vars

----------------------------------------------------------------------------
\* Entry k of the log is stored: it is one of the first alert_count.
Stored(k) == k < alert_count

\* The step changes an entry that is stored.
StoredAlertModified == \E k \in AlertSlots : Stored(k) /\ alerts'[k] # alerts[k]

\* C30: AcknowledgeAlert(i) with i >= alert_count fails and changes
\* nothing; with i < alert_count it sets the acknowledged flag of alert i
\* and changes nothing else; and a stored alert is modified by no operation
\* but AcknowledgeAlert and ClearAllAlerts.
C30_OnlyAcknowledgeModifies ==
    /\ [](\A i \in AlertSlots \cup {AlertCapacity} :
            ~Stored(i) => ~AcknowledgeAlert_ret(i))
    /\ [][\A i \in AlertSlots :
            AcknowledgeAlert(i) =>
              /\ AcknowledgeAlert_ret(i) /\ Stored(i)
              /\ alerts'[i] = [alerts[i] EXCEPT !.is_acknowledged = TRUE]
              /\ \A k \in AlertSlots \ {i} : alerts'[k] = alerts[k]
              /\ alert_count' = alert_count]_vars
    /\ [][StoredAlertModified =>
            \/ \E i \in AlertSlots : AcknowledgeAlert(i)
            \/ ClearAllAlerts]_vars

----------------------------------------------------------------------------
\* The log is full and every stored alert has been acknowledged.
FullAndAcknowledged ==
    /\ g_monitor_initialized
    /\ alert_count >= AlertCapacity
    /\ \A k \in AlertSlots : Stored(k) => alerts[k].is_acknowledged

\* C31: clearing or acknowledging frees space in a full log.  In the state
\* a ClearAllAlerts leaves on an initialised engine CreateAlert does not
\* reject, and neither does it when every alert of a full log has been
\* acknowledged.
C31_ClearOrAcknowledgeFreesSpace ==
    /\ [](FullAndAcknowledged => ~CreateAlertRejects)
    /\ [][(g_monitor_initialized /\ ClearAllAlerts) => ~CreateAlertRejects']_vars

----------------------------------------------------------------------------
\* An alert without its acknowledged flag, which AcknowledgeAlert sets.
Content(alert) == [alert EXCEPT !.is_acknowledged = FALSE]

\* The alert the CreateAlert that thread t is in was called with (lines
\* 381 and 385 of CheckForAlerts).
AlertOf(t) ==
    NewAlert(drives[threads[t].i].drive_path, threads[t].m,
             drives[threads[t].i].current_metrics[threads[t].m],
             threads[t].pc = "alert_critical")

\* C32: GetMonitoringAlerts returns the alerts in insertion order, the
\* sequence of the successful CreateAlert calls since the last
\* ClearAllAlerts.  Step by step: when a CreateAlert succeeds, what
\* GetMonitoringAlerts returns afterwards is what it returned before with
\* the alert of that call added at the end; and no step but a
\* ClearAllAlerts removes or replaces an alert it returns.
C32_AlertsInInsertionOrder ==
    [][/\ \A t \in ThreadIds :
            ThreadAlert(t) =>
              /\ GetMonitoringAlerts'.count = GetMonitoringAlerts.count + 1
              /\ \A j \in DOMAIN GetMonitoringAlerts.alerts :
                     GetMonitoringAlerts'.alerts[j] = GetMonitoringAlerts.alerts[j]
              /\ GetMonitoringAlerts'.alerts[GetMonitoringAlerts.count] = AlertOf(t)
       /\ \/ ClearAllAlerts
          \/ \A j \in DOMAIN GetMonitoringAlerts.alerts :
                /\ j \in DOMAIN GetMonitoringAlerts'.alerts
                /\ Content(GetMonitoringAlerts'.alerts[j])
                     = Content(GetMonitoringAlerts.alerts[j])]_vars

----------------------------------------------------------------------------
\* C33: for every record and every enabled metric, max_metrics and
\* min_metrics are monotone bounds of the samples: max_metrics is at least,
\* and min_metrics at most, every sample delivered for the record so far,
\* and no update of the record lowers max_metrics or raises min_metrics.
C33_ExtremesBoundSamples ==
    /\ [](\A i \in Registered, m \in Metrics :
            g_monitor_config.enable[m] =>
              \A k \in 1..Len(SamplesOf(i, m)) :
                 /\ drives[i].max_metrics[m] >= SamplesOf(i, m)[k]
                 /\ SamplesOf(i, m)[k] >= drives[i].min_metrics[m])
    /\ [][\A t \in ThreadIds, m \in Metrics :
            (g_monitor_config.enable[m] /\ ThreadUpdate(t, SensorValues, FALSE)) =>
              /\ drives'[threads[t].i].max_metrics[m] >= drives[threads[t].i].max_metrics[m]
              /\ drives'[threads[t].i].min_metrics[m] <= drives[threads[t].i].min_metrics[m]]_vars

\* Three ticks with the samples -5.0, 54.0 and 48.0: min_metrics is still
\* -5.0 and max_metrics 54.0 while current_metrics is 48.0.
C33_Witness ==
    /\ Sampled(0, 0, 3)
    /\ SamplesOf(0, 0) = <<-50, 540, 480>>
    /\ drives[0].max_metrics[0] = 540
    /\ drives[0].min_metrics[0] = -50
    /\ drives[0].current_metrics[0] = 480

----------------------------------------------------------------------------
\* C34: when the latest sample of a drive has no errors, no retries, no bad
\* sectors, 1000 writes, average speeds 25 and 20 and 500 hours of use, the
\* heuristic score is 1.0 and PredictUSBHealth returns days_remaining = 730
\* together with the healthy recommendation.  Stated for the predictor
\* after InitUSBHealthPredictor, with the weights InitNeuralNetwork drew.
C34_HealthySampleHealthyText ==
    \A d \in WithHistory :
        (g_health_predictor_initialized /\ LatestSample(d) = HealthySample) =>
            /\ CalculateHealthScore(LatestSample(d)) = <<1, 1>>
            /\ PredictUSBHealth(d).ret
            /\ PredictUSBHealth(d).days_remaining = 730
            /\ PredictUSBHealth(d).recommendation = RecommendationHealthy

----------------------------------------------------------------------------
----------------------------------------------------------------------------
\* Thread t is inside UpdateDriveMetrics for the record of slot j.
Visiting(t, j) ==
    /\ threads[t].pc \in {"update", "count", "check", "alert_critical", "alert_warning"}
    /\ threads[t].i = j

----------------------------------------------------------------------------
\* The stored alerts of the drive of record data that are critical
\* (is_critical TRUE) or warnings (FALSE).
StoredFor(data, is_critical) ==
    {k \in AlertSlots :
        /\ Stored(k)
        /\ alerts[k].drive_path = data.drive_path
        /\ alerts[k].is_critical = is_critical}

\* C37: the cumulative counters of a record agree with the alert log.  With
\* one record registered and no ClearAllAlerts, its error_count is the
\* number of critical alerts and its warning_count the number of warning
\* alerts stored for it, also after ticks in which the log was full.
C37_CountersAgreeWithLog ==
    (drive_count = 1 /\ BetweenUpdates) =>
        /\ drives[0].error_count = Cardinality(StoredFor(drives[0], TRUE))
        /\ drives[0].warning_count = Cardinality(StoredFor(drives[0], FALSE))

----------------------------------------------------------------------------
\* C38: health histories are per device.  For all distinct identifiers d1
\* and d2, also when they share their first character, a call
\* RecordUSBHealthMetrics(d1, m) changes neither the stored history of d2
\* nor what PredictUSBHealth(d2) returns.
C38_HistoriesPerDevice ==
    [][\A d1, d2 \in DrivePaths, m \in RecordedSamples, saved \in SaveOutcomes :
          (d1 # d2 /\ RecordUSBHealthMetrics(d1, m, saved)) =>
              /\ LoadUSBHealthData_ret(d2)' = LoadUSBHealthData_ret(d2)
              /\ LoadUSBHealthData(d2)' = LoadUSBHealthData(d2)
              /\ PredictionOf(LoadUSBHealthData_ret(d2)', LoadUSBHealthData(d2)')
                   = PredictUSBHealth(d2)]_vars

----------------------------------------------------------------------------
\* C39: encryption round-trips.  In a session opened by
\* InitQuantumEncryption with any of the five algorithms, when EncryptData
\* has succeeded on a non-empty plaintext and DecryptData is applied to its
\* output with a large enough buffer, DecryptData succeeds and returns the
\* original plaintext and its size.
C39_EncryptionRoundTrips ==
    (g_quantum_initialized /\ sealed.ret /\ opened.called /\ opened.room) =>
        /\ opened.ret
        /\ opened.plaintext = plain
        /\ opened.plaintext_size = sealed.header.data_size


====
